---------------------------- MODULE Spec2Model ----------------------------
(***************************************************************************)
(* Model of the P1 data clients (p1_data_client_python): the EDGAR client  *)
(* (edgar/edgar_client.py), its helpers (edgar/utils.py), the mappers      *)
(* (edgar/mappers.py), the shared transport entry point                    *)
(* (abstract_client.py) and the data client (client.py).                   *)
(*                                                                         *)
(* A client is single-threaded and blocks on every HTTP request, so a call *)
(* of an endpoint is a sequence of steps, each running the code from one   *)
(* point where the client blocks in session.request to the next one.  The  *)
(* server is the environment: it picks every response.                     *)
(***************************************************************************)
EXTENDS Integers, Sequences, FiniteSets, TLC

(***************************************************************************)
(* Bounds of the model.                                                    *)
(***************************************************************************)
\* chop_list as a pure function: lists of at most ChopMaxLen identifiers
\* drawn from 1..ChopMaxId, batch sizes 1..ChopMaxN.
ChopMaxLen == 5
ChopMaxId == 2
ChopMaxN == 3
\* Identifier lists passed to the endpoints: every list of at most MaxSmallLen
\* identifiers of 1..MaxSmallId, and lists longer than a batch, the longest
\* with two full batches and MaxTail more identifiers.
MaxSmallLen == 2
MaxSmallId == 2
MaxTail == 200
\* HTTP requests issued within one call of an endpoint.
MaxRequests == 4
\* search_pages: the pages_limit arguments tried are 1..MaxPagesLimit.
MaxPagesLimit == 3

(***************************************************************************)
(* Program constants.                                                      *)
(***************************************************************************)
ITEM_BLOCK_SIZE == 500

\* edgar/config.py: DATE_MODE.
DATE_MODE == { "publication_date", "knowledge_date" }

Min(a, b) == IF a <= b THEN a ELSE b

\* Every sequence of at most n elements of S.
RECURSIVE SeqsUpTo(_, _)
SeqsUpTo(S, n) ==
    IF n = 0 THEN { << >> }
    ELSE LET shorter == SeqsUpTo(S, n - 1)
         IN  shorter \cup { Append(s, x) : s \in { t \in shorter : Len(t) = n - 1 }, x \in S }

(***************************************************************************)
(* edgar/utils.py                                                          *)
(***************************************************************************)
\* for i in range(0, len(lst), n): yield lst[i : i + n]
\* (i is the 0-based start of the slice; the slice stops at the list's end).
\* A chop_list whose slices start n + 1 apart.
RECURSIVE chop_from_stride(_, _, _)
chop_from_stride(lst, n, i) ==
    IF i >= Len(lst)
    THEN << >>
    ELSE << SubSeq(lst, i + 1, Min(i + n, Len(lst))) >> \o chop_from_stride(lst, n, i + n + 1)

RECURSIVE chop_from(_, _, _)
chop_from(lst, n, i) ==
    IF i >= Len(lst)
    THEN << >>
    ELSE << SubSeq(lst, i + 1, Min(i + n, Len(lst))) >> \o chop_from(lst, n, i + n)

chop_list(lst, n) == chop_from(lst, n, 0)

\* The concatenation of a sequence of sequences, in order.
RECURSIVE Flatten(_)
Flatten(ss) == IF ss = << >> THEN << >> ELSE Head(ss) \o Flatten(Tail(ss))

\* Python values that are None, a scalar or a list, tagged so that they can be
\* told apart (isinstance(value, list), value is None): v holds the list, or
\* the scalar as its only element.
PyNone == [kind |-> "none", v |-> << >>]
PyScalar(x) == [kind |-> "scalar", v |-> << x >>]
PyList(s) == [kind |-> "list", v |-> s]

SetMin(S) == CHOOSE x \in S : \A y \in S : x <= y
SetMax(S) == CHOOSE x \in S : \A y \in S : y <= x

\* sorted(list(set(value))): the distinct elements in ascending order.
sorted_set(value) ==
    LET S == { value[i] : i \in DOMAIN value }
    IN  IF S = {} THEN << >>
        ELSE LET lo == SetMin(S)
                 hi == SetMax(S)
             IN  SelectSeq([i \in 1..(hi - lo + 1) |-> lo + i - 1], LAMBDA x : x \in S)

\* A check_sorted_unique_param that only checks and returns its argument.
check_only_param(value) == value

\* check_sorted_unique_param: a list is replaced by its sorted distinct
\* elements (fewer elements only cause a warning); any other value is
\* returned as it is.
check_sorted_unique_param(value) ==
    IF value.kind = "list" THEN PyList(sorted_set(value.v)) ELSE value

\* The warning of check_sorted_unique_param is logged exactly in this case.
duplicates_warned(value) ==
    value.kind = "list" /\ Len(sorted_set(value.v)) < Len(value.v)

\* helpers.dbg: dassert(cond) raises AssertionError when cond is false;
\* dfatal(message) raises it always.
dassert(cond) == IF cond THEN "ok" ELSE "AssertionError"
dfatal == dassert(FALSE)

\* Python truth of an optional string argument: None is false (and so is
\* the empty string, which is not among the arguments drawn).
Truthy(value) == value.kind # "none"

\* A check_date_mode that accepts every date_mode when a date is given.
check_date_mode_any(start_datetime, end_datetime, date_mode) ==
    IF Truthy(date_mode) /\ ~(Truthy(start_datetime) \/ Truthy(end_datetime))
    THEN dfatal
    ELSE IF (Truthy(start_datetime) \/ Truthy(end_datetime)) /\ date_mode.kind = "none"
    THEN dfatal
    ELSE "ok"

\* check_date_mode: the exception it raises, or "ok".
check_date_mode(start_datetime, end_datetime, date_mode) ==
    IF Truthy(date_mode) /\ ~(Truthy(start_datetime) \/ Truthy(end_datetime))
    THEN dfatal
    ELSE IF Truthy(start_datetime) \/ Truthy(end_datetime)
    THEN IF date_mode.kind = "none" THEN dfatal
         ELSE IF date_mode.v[1] \notin DATE_MODE THEN dfatal
         ELSE "ok"
    ELSE "ok"

(***************************************************************************)
(* abstract_client.py                                                      *)
(***************************************************************************)
\* A date text by its parts: "2021-03-05", "19:41:02", "-05:00"; a part
\* the text does not have is "".
DateText(ymd, hms, tz) == [ymd |-> ymd, hms |-> hms, tz |-> tz]

\* A validate_date that accepts a text without UTC offset.
validate_date_naive(date_text) == date_text.ymd # "" /\ date_text.hms # ""

\* validate_date: strptime(date_text, "%Y-%m-%dT%H:%M:%S%z") succeeds when
\* the text has the date, the time and the UTC offset; otherwise the method
\* raises ValueError.
validate_date(date_text) ==
    date_text.ymd # "" /\ date_text.hms # "" /\ date_text.tz # ""

\* AbstractClient.__init__ / Client.__init__: self.headers.
InitHeaders ==
    [Authorization |-> "Token token", ContentType |-> "application/json",
     UserAgent |-> "None"]

\* A _make_request that always starts from kwargs["headers"] = dict().
WithUserAgent_fresh(h) ==
    [Authorization |-> "None", ContentType |-> "None", UserAgent |-> "versions"]

\* _make_request: kwargs["headers"]["User-Agent"] = self._get_versions();
\* the dict is self.headers itself, so the entry stays for later calls.
WithUserAgent(h) == [h EXCEPT !.UserAgent = "versions"]

\* A _make_request without the test for 401.
AbstractMakeRequest_not200(status) ==
    IF status # 200 THEN "ParseResponseException" ELSE "ok"

\* _make_request, after session.request returned a response with this
\* status code: the exception raised, or "ok" when the response is returned.
AbstractMakeRequest(status) ==
    IF status = 401 THEN "UnauthorizedException"
    ELSE IF status # 200 THEN "ParseResponseException"
    ELSE "ok"

\* _set_optional_params for one keyword argument: a value that is not None is
\* stored under its name, None leaves the mapping as it is.
set_optional_param(params, name, value) ==
    IF value.kind = "none" THEN params ELSE [params EXCEPT ![name] = value]

\* _set_optional_params for a keyword argument whose name ends with
\* "datetime": a value that is not None is validated first.
datetime_param_error(value) ==
    IF value.kind # "none" /\ ~validate_date(value.v[1]) THEN "ValueError" ELSE "ok"

\* params: Dict[str, Any] = {} -- an entry of kind "none" is a missing key.
EmptyParams ==
    [cik |-> PyNone, cusip |-> PyNone, scroll_id |-> PyNone,
     start_datetime |-> PyNone, end_datetime |-> PyNone, date_mode |-> PyNone,
     form_type |-> PyNone, item |-> PyNone]

(***************************************************************************)
(* State.                                                                  *)
(***************************************************************************)
VARIABLES
    chopLst,    \* chop_list: the argument lst
    chopN,      \* chop_list: the argument n
    chopOut,    \* chop_list: the batches produced (list(chop_list(lst, n)))
    chopDone,   \* chop_list: whether the function has been applied
    inst,       \* the class of the client object that was constructed
    headers,    \* self.headers
    pc,         \* "idle": no call runs; "wait": the call blocks in
                \* session.request; "done": the call returned or raised
    call,       \* the endpoint called and its arguments
    params,     \* the params dict of the call (one object, shared by the
                \* endpoint method, the batch loop and the walker's first request)
    iter_name,  \* _payload_form_cik_cusip_generator: iter_name
    chunks,     \* _payload_form_cik_cusip_generator: chunks
    bi,         \* the position of the batch loop (form10: of the cik loop), from 1
    cik_list,   \* get_form10_payload: cik_list
    kwargs,     \* _payload_page_generator: its own kwargs (url, params present)
    reqs,       \* the requests handed to session.request in this call, in order
    resps,      \* the responses session.request returned in this call, in order
    pages,      \* the pages the walkers yielded in this call, in order
    result,     \* list-shaped accumulator (result, payload_dataframe, compound_data of form10)
    compound_data, \* _get_form4_13_payload: compound_data
    outcome,    \* "none" while the call runs, "returned", "yielded"
                \* (a generator handed a page to its caller), or the exception raised
    scroll_id,  \* Client: self._scroll_id
    last_total_count,       \* Client: self._last_total_count (no attribute at first)
    last_search_parameters, \* Client: self._last_search_parameters
    gen,        \* Client: the generator object search_pages returned
    transport,  \* self.session: its configuration and the session.request in progress
    cast,       \* _cast_field_types: the argument df, and the outcome once applied
    legacy      \* the legacy EdgarClient: one call of an offset walker

chopVars == << chopLst, chopN, chopOut, chopDone >>


callVars == << pc, call, params, iter_name, chunks, bi, cik_list, kwargs, reqs,
               resps, pages, result, compound_data, outcome >>

clientVars == << scroll_id, last_total_count, last_search_parameters, gen >>

mainVars == << inst, headers, callVars, clientVars >>

sideVars == << chopVars, transport, cast, legacy >>

vars == << chopLst, chopN, chopOut, chopDone, inst, headers, pc, call, params,
           iter_name, chunks, bi, cik_list, kwargs, reqs, resps, pages, result,
           compound_data, outcome, scroll_id, last_total_count,
           last_search_parameters, gen, transport, cast, legacy >>

(***************************************************************************)
(* The inputs of the calls and the responses of the server.                *)
(***************************************************************************)
Asc(L) == [i \in 1..L |-> i]
Desc(L) == [i \in 1..L |-> L + 1 - i]
\* 1, 1, 2, 2, 3, 3, ...: every identifier twice.
Twice(L) == [i \in 1..L |-> (i + 1) \div 2]

SmallLists == SeqsUpTo(1..MaxSmallId, MaxSmallLen)
BigLists ==
    { Asc(ITEM_BLOCK_SIZE), Desc(ITEM_BLOCK_SIZE + 1),
      Twice(2 * ITEM_BLOCK_SIZE + 1), Asc(2 * ITEM_BLOCK_SIZE + MaxTail) }

CikInputs == { PyNone, PyScalar(1) } \cup { PyList(l) : l \in SmallLists \cup BigLists }
CusipInputs ==
    { PyNone, PyScalar(1), PyList(<< >>), PyList(<< 2, 1 >>),
      PyList(Desc(ITEM_BLOCK_SIZE + 1)) }

\* A "next" link of a response; "None" stands for a links object without one.
\* The arguments of a call other than cik and cusip, with their defaults.
NoArgs ==
    [start_datetime |-> PyNone, end_datetime |-> PyNone, date_mode |-> PyNone,
     output_type |-> "dataframes", metadata_type |-> "None",
     form_type |-> PyNone, item |-> PyNone]

\* start_datetime / end_datetime: None, a text the service accepts, and a
\* text without UTC offset.
DateInputs ==
    { PyNone,
      PyScalar(DateText("2021-03-05", "19:41:02", "-05:00")),
      PyScalar(DateText("2016-01-26", "23:59:59", "")) }

DateModeInputs ==
    { PyNone, PyScalar("publication_date"), PyScalar("knowledge_date"),
      PyScalar("filing_date") }

OutputTypes == { "dataframes", "dict", "json" }

\* The arguments drawn for a call: every combination of dates and
\* date_mode with the default output_type, and every output_type with no
\* dates.
ArgInputs ==
    { [NoArgs EXCEPT !.start_datetime = sd, !.end_datetime = ed, !.date_mode = dm] :
        sd \in DateInputs, ed \in DateInputs, dm \in DateModeInputs }
    \cup { [NoArgs EXCEPT !.output_type = ot] : ot \in OutputTypes }

\* The arguments drawn together with cik and cusip: all of them with one
\* cik and with a short cik and a short cusip, the defaults with the other
\* inputs.
ArgsFor(cik, cusip) ==
    IF /\ cusip.kind # "none"
       /\ cik.kind # "none"
       /\ Len(cik.v) <= MaxSmallLen
       /\ Len(cusip.v) <= MaxSmallLen
    THEN ArgInputs
    ELSE IF cik = PyScalar(1) /\ cusip.kind = "none" THEN ArgInputs
    ELSE { NoArgs }

\* The arguments drawn with the cik list of more than one batch: every
\* filter of the endpoint given, form_type (one of self.form_types) for the
\* headers and item for form8.
FilterArgs(e, cik) ==
    IF cik.kind = "list" /\ Len(cik.v) > ITEM_BLOCK_SIZE /\ e \in { "headers", "form8" }
    THEN { [NoArgs EXCEPT
              !.start_datetime = PyScalar(DateText("2021-03-05", "19:41:02", "-05:00")),
              !.end_datetime = PyScalar(DateText("2021-03-05", "19:41:02", "-05:00")),
              !.date_mode = PyScalar("knowledge_date"),
              !.form_type = IF e = "headers" THEN PyScalar("13F-HR") ELSE PyNone,
              !.item = IF e = "form8" THEN PyScalar("ACT_QUARTER") ELSE PyNone] }
    ELSE {}

NextUrls == { "next1", "next2" }

\* The "data" of one page. A record of a single-table endpoint is
\* represented by its sort key (filing_date, cik, item_name), a number; a
\* multi-table page maps table names to lists of records.
ListPages == { << >>, << 2, 1 >> }
DictPages ==
    { [t \in {} |-> << >>],
      [t1 |-> << >>],
      [t1 |-> << "a" >>],
      [t1 |-> << "b" >>, t2 |-> << "c" >>] }

ListEndpoints == { "headers", "form8" }
DictEndpoints == { "form4", "form13" }
GenEndpoints == ListEndpoints \cup DictEndpoints

PagesOf(e) == IF e \in DictEndpoints THEN DictPages ELSE ListPages

\* Status codes of responses that are no success: 401 and another one.
FailStatuses == { 401, 404 }

\* The body of a response: "ok" is a JSON object with the keys the endpoint
\* reads, "nokey" a JSON object without them ({"message": ...}), "notjson"
\* a body that is no JSON.
BadBodies == { "nokey", "notjson" }

GenResponses(e) ==
    { [status |-> 200, body |-> "ok", next |-> n, data |-> d] :
        n \in { "None" } \cup NextUrls, d \in PagesOf(e) }
    \cup { [status |-> 200, body |-> b, next |-> "None", data |-> << >>] : b \in BadBodies }
    \cup { [status |-> st, body |-> "nokey", next |-> "None", data |-> << >>] :
              st \in FailStatuses }

\* response.json()[key] on a response body: the exception it raises, or "ok".
JsonKey(body) ==
    IF body = "notjson" THEN "JSONDecodeError"
    ELSE IF body = "nokey" THEN "KeyError"
    ELSE "ok"

\* The same access inside try / except (KeyError, json.JSONDecodeError).
JsonKeyGuarded(body) == IF JsonKey(body) = "ok" THEN "ok" ELSE "ParseResponseException"

\* What session.request was called with.
Request(b, method, url, hdrs, hasParams, p) ==
    [batch |-> b, method |-> method, url |-> url, headers |-> hdrs,
     hasParams |-> hasParams, params |-> p]

NoCall == [endpoint |-> "none", cik |-> PyNone, cusip |-> PyNone, args |-> NoArgs]
NoKwargs == [method |-> "None", url |-> "None", hasParams |-> FALSE]

(***************************************************************************)
(* edgar/edgar_client.py                                                   *)
(***************************************************************************)
\* payload_dataframe.sort_values([...]): the records in ascending key order.
RECURSIVE InsertSorted(_, _)
InsertSorted(s, x) ==
    IF s = << >> THEN << x >>
    ELSE IF x < Head(s) THEN << x >> \o s
    ELSE << Head(s) >> \o InsertSorted(Tail(s), x)

\* A sort that also drops records with equal keys.
sort_values_unique(s) == sorted_set(s)

RECURSIVE sort_values(_)
sort_values(s) ==
    IF s = << >> THEN << >>
    ELSE InsertSorted(sort_values(SubSeq(s, 1, Len(s) - 1)), s[Len(s)])

\* A merge that assigns the page's list to the key (dict.update).
merge_page_update(acc, data) ==
    [key \in DOMAIN acc \cup DOMAIN data |->
        IF key \in DOMAIN data THEN data[key] ELSE acc[key]]

\* _get_form4_13_payload, the body of the loop over the pages:
\* for key in data: compound_data[key] += data[key], or = data[key] for a new key.
merge_page(acc, data) ==
    [key \in DOMAIN acc \cup DOMAIN data |->
        IF key \in DOMAIN data
        THEN IF key \in DOMAIN acc THEN acc[key] \o data[key] ELSE data[key]
        ELSE acc[key]]

\* A Links that tests for a key every links object has ("self").
HasNextLink_self(resp) == TRUE

\* Links.__init__: has_next_link = "next" in links.
HasNextLink(resp) == resp.next # "None"

\* A walker step that drops the params and keeps the URL.
NextKwargs_keep_url(kw, next_url) == [kw EXCEPT !.hasParams = FALSE]

\* A walker step that sets the URL and keeps the params.
NextKwargs_keep_params(kw, next_url) == [kw EXCEPT !.url = next_url]

\* _payload_page_generator after a page: kwargs.pop("params", None) and
\* kwargs["url"] = links.next_url.
NextKwargs(kw, next_url) == [kw EXCEPT !.hasParams = FALSE, !.url = next_url]

\* _payload_page_generator: self._make_request(**kwargs) -- what the walker
\* of batch b hands to session.request; p is the params dict of the call,
\* sent only while kwargs still holds it.
WalkerRequest(b, kw, hdrs, p) ==
    Request(b, kw.method, kw.url, hdrs, kw.hasParams,
            IF kw.hasParams THEN p ELSE EmptyParams)

\* _payload_form_cik_cusip_generator: iter_name.
IterName(p) ==
    IF p.cik.kind # "none" THEN "CIK"
    ELSE IF p.cusip.kind # "none" THEN "CUSIP"
    ELSE ""

\* An iter_list that takes an empty list for no filter.
IterList_truthy(p) ==
    IF p.cik.kind # "none" /\ p.cik.v # << >> THEN p.cik.v
    ELSE IF p.cusip.kind # "none" /\ p.cusip.v # << >> THEN p.cusip.v
    ELSE << "None" >>

\* _payload_form_cik_cusip_generator: iter_list -- the list of the parameter,
\* the scalar as a list of one, or [None].
IterList(p) ==
    IF p.cik.kind # "none" THEN p.cik.v
    ELSE IF p.cusip.kind # "none" THEN p.cusip.v
    ELSE << "None" >>

\* A batch loop that leaves the params as the endpoint method built them.
BatchParams_unset(p, iname, item) == p

\* _payload_form_cik_cusip_generator: the params of the batch item.
BatchParams(p, iname, item) ==
    IF iname = "CIK" THEN set_optional_param(p, "cik", PyList(item))
    ELSE IF iname = "CUSIP" THEN set_optional_param(p, "cusip", PyList(item))
    ELSE p

\* An endpoint that returns None when it has accumulated nothing.
FinalResult_none(e, acc) ==
    IF acc = << >> THEN << "None" >>
    ELSE IF e = "form8" THEN sort_values(acc)
    ELSE acc

\* The value the endpoint returns from its accumulator.
FinalResult(e, acc) == IF e = "form8" THEN sort_values(acc) ELSE acc

\* The end of get_form_headers and _process_form_4_13_10_output: the
\* accumulator is converted when output_type is "dataframes", and any other
\* output_type is fatal; get_form8_payload has no output_type.
ProcessOutput(e, output_type) ==
    IF e \in { "headers", "form4", "form13" } /\ output_type # "dataframes"
    THEN dfatal
    ELSE "returned"

\* Preconditions without the dassert on cik and cusip.
Preconditions_no_exclusive(e, cik, cusip, a) ==
    IF check_date_mode(a.start_datetime, a.end_datetime, a.date_mode) # "ok"
    THEN check_date_mode(a.start_datetime, a.end_datetime, a.date_mode)
    ELSE IF e \in { "form4", "form13" }
            /\ dassert(a.output_type \in { "dict", "dataframes" }) # "ok"
    THEN "AssertionError"
    ELSE IF datetime_param_error(a.start_datetime) # "ok"
    THEN datetime_param_error(a.start_datetime)
    ELSE datetime_param_error(a.end_datetime)

\* The arguments checked before the first request, in the order of the
\* code: check_date_mode, the dasserts of _get_form4_13_payload, then
\* _set_optional_params with its validate_date.  The exception, or "ok".
Preconditions(e, cik, cusip, a) ==
    IF check_date_mode(a.start_datetime, a.end_datetime, a.date_mode) # "ok"
    THEN check_date_mode(a.start_datetime, a.end_datetime, a.date_mode)
    ELSE IF e \in { "form4", "form13" }
            /\ dassert(~(cik.kind # "none" /\ cusip.kind # "none")) # "ok"
    THEN "AssertionError"
    ELSE IF e \in { "form4", "form13" }
            /\ dassert(a.output_type \in { "dict", "dataframes" }) # "ok"
    THEN "AssertionError"
    ELSE IF datetime_param_error(a.start_datetime) # "ok"
    THEN datetime_param_error(a.start_datetime)
    ELSE datetime_param_error(a.end_datetime)

\* The params the endpoint method builds with _set_optional_params.
CallParams(cik, cusip, a) ==
    set_optional_param(
        set_optional_param(
            set_optional_param(
                set_optional_param(
                    set_optional_param(
                        set_optional_param(
                            set_optional_param(EmptyParams, "form_type", a.form_type),
                            "start_datetime", a.start_datetime),
                        "end_datetime", a.end_datetime),
                    "item", a.item),
                "date_mode", a.date_mode),
            "cik", cik),
        "cusip", cusip)

\* A walker that works on the kwargs of the batch loop itself: what the
\* walker of the batch before left in them is what the next walker starts with.
WalkerKwargs_shared(kw, e) ==
    IF kw = NoKwargs THEN [method |-> "GET", url |-> e, hasParams |-> TRUE] ELSE kw

\* self._payload_page_generator(**kwargs): the walker gets a dict of its own,
\* filled from the kwargs of the batch loop, which hold the method, the URL
\* of the endpoint and the params dict whatever a walker before did to its own.
WalkerKwargs(kw, e) == [method |-> "GET", url |-> e, hasParams |-> TRUE]

\* _payload_form_cik_cusip_generator from the batch at position b on: the
\* walker of that batch issues its first request (to the endpoint's URL,
\* with the params dict), or the batches are exhausted and the endpoint
\* returns.
GenContinue(e, b, chs, iname, p, acc, output_type) ==
    IF b <= Len(chs)
    THEN LET p2 == BatchParams(p, iname, chs[b])
             h2 == WithUserAgent(headers)
         IN  /\ Len(reqs) < MaxRequests
             /\ params' = p2
             /\ bi' = b
             /\ kwargs' = WalkerKwargs(kwargs, e)
             /\ headers' = h2
             /\ reqs' = Append(reqs, WalkerRequest(b, kwargs', h2, p2))
             /\ result' = acc
             /\ pc' = "wait"
             /\ outcome' = "none"
    ELSE /\ params' = p
         /\ bi' = b
         /\ kwargs' = NoKwargs
         /\ headers' = headers
         /\ reqs' = reqs
         /\ result' = IF e \in { "form4", "form13" } THEN compound_data'
                      ELSE FinalResult(e, acc)
         /\ pc' = "done"
         /\ outcome' = ProcessOutput(e, output_type)

\* A call that raises before it issues a request.
RaiseAtOnce(c, exc) ==
    /\ call' = c
    /\ pc' = "done"
    /\ outcome' = exc
    /\ UNCHANGED << headers, params, iter_name, chunks, bi, cik_list, kwargs,
                    reqs, resps, pages, result, compound_data >>

\* get_form_headers, get_form4_payload, get_form8_payload, get_form13_payload
\* up to the first request.
CallGen(e, cikArg, cusipArg, a) ==
    /\ pc = "idle"
    /\ inst = "EdgarClient"
    /\ LET cik == check_sorted_unique_param(cikArg)
           cusip == check_sorted_unique_param(cusipArg)
           c == [endpoint |-> e, cik |-> cikArg, cusip |-> cusipArg, args |-> a]
           p == CallParams(cik, cusip, a)
       IN  IF Preconditions(e, cik, cusip, a) # "ok"
           THEN RaiseAtOnce(c, Preconditions(e, cik, cusip, a))
           ELSE /\ call' = c
                /\ iter_name' = IterName(p)
                /\ chunks' = chop_list(IterList(p), ITEM_BLOCK_SIZE)
                /\ UNCHANGED << cik_list, resps, pages, compound_data >>
                /\ GenContinue(e, 1, chunks', iter_name', p, << >>, a.output_type)

get_form_headers ==
    \E cik \in CikInputs : \E a \in ArgsFor(cik, PyNone) \cup FilterArgs("headers", cik) :
        CallGen("headers", cik, PyNone, a)

get_form4_payload ==
    \E cik \in CikInputs : \E a \in ArgsFor(cik, PyNone) :
        CallGen("form4", cik, PyNone, a)

\* get_form8_payload has no output_type argument.
get_form8_payload ==
    \E cik \in CikInputs : \E a \in ArgsFor(cik, PyNone) \cup FilterArgs("form8", cik) :
        /\ a.output_type = NoArgs.output_type
        /\ CallGen("form8", cik, PyNone, a)

get_form13_payload ==
    \E cik \in CikInputs, cusip \in CusipInputs : \E a \in ArgsFor(cik, cusip) :
        CallGen("form13", cik, cusip, a)

\* _payload_page_generator from the return of session.request to the next
\* request of the call, or to the end of the call.
PageResponse ==
    /\ pc = "wait"
    /\ call.endpoint \in GenEndpoints
    /\ \E resp \in GenResponses(call.endpoint) :
        LET e == call.endpoint
            sent == AbstractMakeRequest(resp.status)
            made == IF sent = "ok" THEN JsonKey(resp.body) ELSE sent
        IN  /\ resps' = Append(resps, resp)
            /\ IF made # "ok"
               THEN /\ pc' = "done"
                    /\ outcome' = made
                    /\ UNCHANGED << headers, params, bi, kwargs, reqs, pages,
                                    result, compound_data >>
               ELSE LET has_next_link == HasNextLink(resp)
                        acc == IF e \in ListEndpoints THEN result \o resp.data ELSE result
                    IN  /\ pages' = Append(pages, [batch |-> bi, data |-> resp.data])
                        /\ compound_data' =
                              IF e \in DictEndpoints
                              THEN merge_page(compound_data, resp.data)
                              ELSE compound_data
                        /\ IF has_next_link
                           THEN /\ Len(reqs) < MaxRequests
                                /\ kwargs' = NextKwargs(kwargs, resp.next)
                                /\ reqs' = Append(reqs,
                                      WalkerRequest(bi, kwargs', WithUserAgent(headers),
                                                    params))
                                /\ headers' = WithUserAgent(headers)
                                /\ result' = acc
                                /\ pc' = "wait"
                                /\ UNCHANGED << params, bi, outcome >>
                           ELSE GenContinue(e, bi + 1, chunks, iter_name, params, acc,
                                            call.args.output_type)
    /\ UNCHANGED << call, iter_name, chunks, cik_list >>

\* get_form10_payload: cik_list.
Form10CikList(cik) == IF cik.kind = "none" THEN << "None" >> ELSE cik.v

\* get_form10_payload from the cik at position b of cik_list on: one request
\* with that cik as a scalar parameter (None leaves the params as they are),
\* or the list is exhausted and the method returns.
Form10Continue(b, lst, isNone, p, acc) ==
    IF b <= Len(lst)
    THEN LET p2 == IF isNone THEN p ELSE set_optional_param(p, "cik", PyScalar(lst[b]))
             h2 == WithUserAgent(headers)
         IN  /\ Len(reqs) < MaxRequests
             /\ params' = p2
             /\ bi' = b
             /\ headers' = h2
             /\ reqs' = Append(reqs, Request(b, "GET", "form10", h2, TRUE, p2))
             /\ result' = acc
             /\ pc' = "wait"
             /\ outcome' = "none"
    ELSE /\ params' = p
         /\ bi' = b
         /\ headers' = headers
         /\ reqs' = reqs
         /\ result' = acc
         /\ pc' = "done"
         /\ outcome' = "returned"

get_form10_payload ==
    /\ pc = "idle"
    /\ inst = "EdgarClient"
    /\ \E cikArg \in CikInputs :
      \E a \in ArgsFor(cikArg, PyNone) :
        LET cik == check_sorted_unique_param(cikArg)
            c == [endpoint |-> "form10", cik |-> cikArg, cusip |-> PyNone, args |-> a]
        IN  /\ a.output_type = NoArgs.output_type
            /\ IF Preconditions("form10", cik, PyNone, a) # "ok"
               THEN RaiseAtOnce(c, Preconditions("form10", cik, PyNone, a))
               ELSE /\ call' = c
                    /\ cik_list' = Form10CikList(cik)
                    /\ Form10Continue(1, cik_list', cik.kind = "none",
                                      CallParams(PyNone, PyNone, a), << >>)
                    /\ UNCHANGED << iter_name, chunks, kwargs, resps, pages,
                                    compound_data >>

\* get_form10_payload from the return of session.request on.
Form10Response ==
    /\ pc = "wait"
    /\ call.endpoint = "form10"
    /\ \E resp \in GenResponses("form10") :
        LET sent == AbstractMakeRequest(resp.status)
            made == IF sent = "ok" THEN JsonKey(resp.body) ELSE sent
        IN  /\ resp.next = "None"
            /\ resps' = Append(resps, resp)
            /\ IF made # "ok"
               THEN /\ pc' = "done"
                    /\ outcome' = made
                    /\ UNCHANGED << headers, params, bi, reqs, result >>
               ELSE Form10Continue(bi + 1, cik_list, call.cik.kind = "none",
                                   params, result \o resp.data)
    /\ UNCHANGED << call, iter_name, chunks, cik_list, kwargs, pages, compound_data >>

\* The endpoints that issue one request and decode one response: get_cik and
\* get_form10_uuid_payload of EdgarClient, and the mappers' methods
\* (edgar/mappers.py).
SimpleEndpoints ==
    [EdgarClient |-> { "get_cik", "get_form10_uuid_payload" },
     ItemMapper |-> { "get_mapping", "get_item_from_keywords" },
     GvkCikMapper |-> { "get_gvk_from_cik", "get_cik_from_gvk" }]

AllSimpleEndpoints ==
    SimpleEndpoints.EdgarClient \cup SimpleEndpoints.ItemMapper
        \cup SimpleEndpoints.GvkCikMapper

SimpleCall ==
    /\ pc = "idle"
    /\ inst \in DOMAIN SimpleEndpoints
    /\ \E e \in SimpleEndpoints[inst] :
        LET p == IF e = "get_gvk_from_cik"
                 THEN set_optional_param(EmptyParams, "cik", PyScalar(1))
                 ELSE EmptyParams
            h2 == WithUserAgent(headers)
        IN  /\ call' = [endpoint |-> e, cik |-> PyNone, cusip |-> PyNone, args |-> NoArgs]
            /\ params' = p
            /\ headers' = h2
            /\ reqs' = Append(reqs, Request(0, "GET", e, h2, TRUE, p))
            /\ pc' = "wait"
    /\ UNCHANGED << iter_name, chunks, bi, cik_list, kwargs, resps, pages, result,
                    compound_data, outcome >>

\* get_form10_uuid_payload reads response.json()["data"] unguarded; the
\* other methods decode with _get_dataframe_from_response.
SimpleResponse ==
    /\ pc = "wait"
    /\ call.endpoint \in AllSimpleEndpoints
    /\ \E resp \in GenResponses("headers") :
        LET sent == AbstractMakeRequest(resp.status)
            made == IF sent # "ok" THEN sent
                    ELSE IF call.endpoint = "get_form10_uuid_payload"
                    THEN JsonKey(resp.body)
                    ELSE JsonKeyGuarded(resp.body)
        IN  /\ resp.next = "None"
            /\ resps' = Append(resps, resp)
            /\ pc' = "done"
            /\ outcome' = IF made = "ok" THEN "returned" ELSE made
            /\ result' = IF made = "ok" THEN resp.data ELSE result
    /\ UNCHANGED << headers, call, params, iter_name, chunks, bi, cik_list, kwargs,
                    reqs, pages, compound_data >>

(***************************************************************************)
(* client.py                                                               *)
(***************************************************************************)
\* Client._make_request: only a 401 raises; any other response is returned.
ClientMakeRequest(status) == IF status = 401 THEN "UnauthorizedException" ELSE "ok"

\* self._last_total_count is first assigned by _parse_search.
NoAttribute == [set |-> FALSE, v |-> 0]
Attribute(x) == [set |-> TRUE, v |-> x]

\* The generator object of search_pages: its position and local variables,
\* and, for the record, the scroll ids it has sent (sent), those of them
\* that a response stored by the client has returned again (reissued), and
\* the number of rows of the latest search or page response the client has
\* parsed (last_rows).
NoGenerator ==
    [state |-> "none", pages_limit |-> 0, current_page_number |-> 0, row_count |-> 0,
     sent |-> << >>, reissued |-> {}, last_rows |-> 0]

Sent(g) == { g.sent[i] : i \in DOMAIN g.sent }

\* The generator's record when the client stores the scroll id of a response.
Stored(g, id) == IF id \in Sent(g) THEN [g EXCEPT !.reissued = @ \cup { id }] ELSE g

ScrollIds == { "s1", "s2" }
TotalCounts == { 0, 2 }
SearchPayloads == { "Gas" }
PagesLimits == 1..MaxPagesLimit
MetadataTypes == { "COMMODITIES", "Stranger Things" }
METADATA_ROUTES == { "COMMODITIES", "BUSINESS-CATEGORIES", "COUNTRIES", "FREQUENCIES" }

\* The bodies a response of the data API can have: with all the keys the
\* client reads, with "scroll_id" only, with none of them, or no JSON.
ClientResponses ==
    { [status |-> st, body |-> "ok", scroll_id |-> sc, total_count |-> tc, rows |-> rw] :
        st \in { 200, 404 }, sc \in ScrollIds, tc \in TotalCounts, rw \in ListPages }
    \cup { [status |-> st, body |-> b, scroll_id |-> sc, total_count |-> 0, rows |-> << >>] :
        st \in { 200, 404 }, b \in BadBodies \cup { "scroll_only" }, sc \in { "s1" } }
    \cup { [status |-> 401, body |-> "nokey", scroll_id |-> "s1", total_count |-> 0,
            rows |-> << >>] }

\* Whether payloads[key] succeeds on a decoded body.
HasKey(body, key) == body = "ok" \/ (body = "scroll_only" /\ key = "scroll_id")

ClientRequest(method, url, p) == Request(0, method, url, headers, p # EmptyParams, p)

ClientCallFrame ==
    UNCHANGED << headers, iter_name, chunks, bi, cik_list, kwargs, pages, compound_data >>

\* search up to its request.
search ==
    /\ pc = "idle"
    /\ inst = "Client"
    /\ \E search_payload \in SearchPayloads :
        /\ last_search_parameters' = search_payload
        /\ call' = [endpoint |-> "search", cik |-> PyNone, cusip |-> PyNone, args |-> NoArgs]
    /\ reqs' = Append(reqs, ClientRequest("POST", "SEARCH", EmptyParams))
    /\ pc' = "wait"
    /\ ClientCallFrame
    /\ UNCHANGED << params, resps, result, outcome, scroll_id, last_total_count, gen >>

\* search from the response on: _parse_search assigns self._scroll_id, then
\* self._last_total_count, then builds the table from the rows.
searchResponse ==
    /\ pc = "wait"
    /\ call.endpoint = "search"
    /\ \E resp \in ClientResponses :
        LET sent == ClientMakeRequest(resp.status)
        IN  /\ resps' = Append(resps, resp)
            /\ pc' = "done"
            /\ IF sent # "ok"
               THEN /\ outcome' = sent
                    /\ UNCHANGED << scroll_id, last_total_count, result >>
               ELSE IF resp.body = "notjson" \/ ~HasKey(resp.body, "scroll_id")
               THEN /\ outcome' = "ParseResponseException"
                    /\ UNCHANGED << scroll_id, last_total_count, result >>
               ELSE /\ scroll_id' = resp.scroll_id
                    /\ IF ~HasKey(resp.body, "total_count")
                       THEN /\ outcome' = "ParseResponseException"
                            /\ UNCHANGED << last_total_count, result >>
                       ELSE /\ last_total_count' = Attribute(resp.total_count)
                            /\ IF ~HasKey(resp.body, "rows")
                               THEN /\ outcome' = "ParseResponseException"
                                    /\ UNCHANGED result
                               ELSE /\ outcome' = "returned"
                                    /\ result' = resp.rows
    /\ LET resp == resps'[Len(resps')]
           g == IF ClientMakeRequest(resp.status) = "ok" /\ HasKey(resp.body, "scroll_id")
                THEN Stored(gen, scroll_id')
                ELSE gen
       IN  gen' = IF outcome' = "returned"
                  THEN [g EXCEPT !.last_rows = Len(resp.rows)]
                  ELSE g
    /\ ClientCallFrame
    /\ UNCHANGED << call, params, reqs, last_search_parameters >>

\* A scroll request without the stored scroll id.
ScrollRequest_none == ClientRequest("GET", "SEARCH_SCROLL", EmptyParams)

\* search_scroll up to its request: params={"scroll_id": self._scroll_id}.
ScrollRequest ==
    ClientRequest("GET", "SEARCH_SCROLL",
                  set_optional_param(EmptyParams, "scroll_id", PyScalar(scroll_id)))

search_scroll ==
    /\ pc = "idle"
    /\ inst = "Client"
    /\ call' = [endpoint |-> "search_scroll", cik |-> PyNone, cusip |-> PyNone, args |-> NoArgs]
    /\ reqs' = Append(reqs, ScrollRequest)
    /\ pc' = "wait"
    /\ ClientCallFrame
    /\ UNCHANGED << params, resps, result, outcome, clientVars >>

\* search_scroll from the response on: the outcome and the page it returns.
ScrollOutcome(resp) ==
    LET sent == ClientMakeRequest(resp.status)
    IN  IF sent # "ok" THEN sent
        ELSE IF resp.body = "notjson" THEN "JSONDecodeError"
        ELSE "returned"

search_scrollResponse ==
    /\ pc = "wait"
    /\ call.endpoint = "search_scroll"
    /\ \E resp \in ClientResponses :
        /\ resps' = Append(resps, resp)
        /\ pc' = "done"
        /\ outcome' = ScrollOutcome(resp)
        /\ result' = IF outcome' = "returned" THEN resp.rows ELSE result
    /\ ClientCallFrame
    /\ UNCHANGED << call, params, reqs, clientVars >>

\* A search_pages that asks for the first page when it is called.
search_pages_eager ==
    /\ pc = "idle"
    /\ inst = "Client"
    /\ \E pages_limit \in PagesLimits :
        gen' = [state |-> "created", pages_limit |-> pages_limit,
                current_page_number |-> 0, row_count |-> 0,
                sent |-> << scroll_id >>, reissued |-> {}, last_rows |-> gen.last_rows]
    /\ reqs' = Append(reqs, ScrollRequest)
    /\ UNCHANGED << headers, pc, call, params, iter_name, chunks, bi, cik_list,
                    kwargs, resps, pages, result, compound_data, outcome,
                    scroll_id, last_total_count, last_search_parameters >>

\* search_pages(pages_limit): the call only creates the generator.
search_pages ==
    /\ pc = "idle"
    /\ inst = "Client"
    /\ \E pages_limit \in PagesLimits :
        gen' = [state |-> "created", pages_limit |-> pages_limit,
                current_page_number |-> 0, row_count |-> 0,
                sent |-> << >>, reissued |-> {}, last_rows |-> gen.last_rows]
    /\ UNCHANGED << headers, callVars, scroll_id, last_total_count,
                    last_search_parameters >>

\* A loop test that looks at the page number only.
PagesLoop_any_rows(g) ==
    IF g.current_page_number < g.pages_limit
    THEN /\ gen' = [g EXCEPT !.state = "running", !.sent = Append(@, scroll_id)]
         /\ reqs' = Append(reqs, ScrollRequest)
         /\ pc' = "wait"
         /\ outcome' = "none"
    ELSE /\ gen' = [g EXCEPT !.state = "finished"]
         /\ reqs' = reqs
         /\ pc' = "done"
         /\ outcome' = "StopIteration"

\* The generator of search_pages at the test of its loop: it calls
\* search_scroll, or leaves the loop and is exhausted.
PagesLoop(g) ==
    IF g.row_count > 0 /\ g.current_page_number < g.pages_limit
    THEN /\ gen' = [g EXCEPT !.state = "running", !.sent = Append(@, scroll_id)]
         /\ reqs' = Append(reqs, ScrollRequest)
         /\ pc' = "wait"
         /\ outcome' = "none"
    ELSE /\ gen' = [g EXCEPT !.state = "finished"]
         /\ reqs' = reqs
         /\ pc' = "done"
         /\ outcome' = "StopIteration"

\* The caller asks the generator for its next page (next(), a for loop).
pagesNext ==
    /\ pc = "idle"
    /\ inst = "Client"
    /\ gen.state \in { "created", "suspended" }
    /\ call' = [endpoint |-> "search_pages", cik |-> PyNone, cusip |-> PyNone, args |-> NoArgs]
    /\ IF gen.state = "created"
       THEN IF ~last_total_count.set
            THEN /\ gen' = [gen EXCEPT !.state = "finished", !.current_page_number = 1]
                 /\ pc' = "done"
                 /\ outcome' = "AttributeError"
                 /\ UNCHANGED reqs
            ELSE IF scroll_id = ""
            THEN /\ gen' = [gen EXCEPT !.state = "finished", !.current_page_number = 1,
                                       !.row_count = last_total_count.v]
                 /\ pc' = "done"
                 /\ outcome' = "StopIteration"
                 /\ UNCHANGED reqs
            ELSE PagesLoop([gen EXCEPT !.current_page_number = 1,
                                       !.row_count = last_total_count.v])
       ELSE PagesLoop([gen EXCEPT !.current_page_number = @ + 1])
    /\ ClientCallFrame
    /\ UNCHANGED << params, resps, result, scroll_id, last_total_count,
                    last_search_parameters >>

\* The generator from the response of its search_scroll on: it stores the
\* row count and the scroll id of the page and yields the page.
pagesResponse ==
    /\ pc = "wait"
    /\ call.endpoint = "search_pages"
    /\ \E resp \in ClientResponses :
        LET scrolled == ScrollOutcome(resp)
        IN  /\ resps' = Append(resps, resp)
            /\ pc' = "done"
            /\ IF scrolled # "returned"
               THEN /\ outcome' = scrolled
                    /\ gen' = [gen EXCEPT !.state = "finished"]
                    /\ UNCHANGED << scroll_id, result >>
               ELSE IF ~HasKey(resp.body, "rows")
               THEN /\ outcome' = "KeyError"
                    /\ gen' = [gen EXCEPT !.state = "finished"]
                    /\ UNCHANGED << scroll_id, result >>
               ELSE /\ outcome' = "yielded"
                    /\ gen' = Stored([gen EXCEPT !.state = "suspended",
                                                 !.row_count = Len(resp.rows),
                                                 !.last_rows = Len(resp.rows)],
                                      resp.scroll_id)
                    /\ scroll_id' = resp.scroll_id
                    /\ result' = resp.rows
    /\ ClientCallFrame
    /\ UNCHANGED << call, params, reqs, last_total_count, last_search_parameters >>

\* get_payload and get_metadata_type up to their request; a metadata type
\* that is no key of METADATA_ROUTES raises before any request.
get_payload ==
    /\ pc = "idle"
    /\ inst = "Client"
    /\ call' = [endpoint |-> "get_payload", cik |-> PyNone, cusip |-> PyNone, args |-> NoArgs]
    /\ reqs' = Append(reqs, ClientRequest("GET", "PAYLOAD", EmptyParams))
    /\ pc' = "wait"
    /\ ClientCallFrame
    /\ UNCHANGED << params, resps, result, outcome, clientVars >>

\* A get_metadata_type that takes the name itself as the route.
get_metadata_type_any ==
    /\ pc = "idle"
    /\ inst = "Client"
    /\ \E metadata_type \in MetadataTypes :
        /\ call' = [endpoint |-> "get_metadata_type", cik |-> PyNone, cusip |-> PyNone,
                     args |-> [NoArgs EXCEPT !.metadata_type = metadata_type]]
        /\ reqs' = Append(reqs, ClientRequest("GET", metadata_type, EmptyParams))
        /\ pc' = "wait"
        /\ outcome' = "none"
    /\ ClientCallFrame
    /\ UNCHANGED << params, resps, result, clientVars >>

get_metadata_type ==
    /\ pc = "idle"
    /\ inst = "Client"
    /\ \E metadata_type \in MetadataTypes :
        /\ call' = [endpoint |-> "get_metadata_type", cik |-> PyNone, cusip |-> PyNone,
                     args |-> [NoArgs EXCEPT !.metadata_type = metadata_type]]
        /\ IF metadata_type \in METADATA_ROUTES
           THEN /\ reqs' = Append(reqs, ClientRequest("GET", metadata_type, EmptyParams))
                /\ pc' = "wait"
                /\ outcome' = "none"
           ELSE /\ reqs' = reqs
                /\ pc' = "done"
                /\ outcome' = "BadMetaDataTypeException"
    /\ ClientCallFrame
    /\ UNCHANGED << params, resps, result, clientVars >>

\* get_payload / get_metadata_type from the response on: the body is parsed
\* inside try / except (KeyError, json.JSONDecodeError).
parseResponse ==
    /\ pc = "wait"
    /\ call.endpoint \in { "get_payload", "get_metadata_type" }
    /\ \E resp \in ClientResponses :
        LET sent == ClientMakeRequest(resp.status)
            made == IF sent # "ok" THEN sent
                    ELSE IF resp.body = "ok" THEN "returned"
                    ELSE "ParseResponseException"
        IN  /\ resps' = Append(resps, resp)
            /\ pc' = "done"
            /\ outcome' = made
            /\ result' = IF made = "returned" THEN resp.rows ELSE result
    /\ ClientCallFrame
    /\ UNCHANGED << call, params, reqs, clientVars >>

\* _cast_field_types and the legacy walkers while nothing runs in them.
NoCast ==
    [df |-> [c \in {} |-> << >>], done |-> TRUE, outcome |-> "none",
     out |-> [c \in {} |-> << >>]]

NoLegacy ==
    [pc |-> "idle", walker |-> "none", cik |-> PyNone, b |-> 0,
     current_offset |-> 0, count_lines |-> 0, reqs |-> << >>, resps |-> << >>,
     outcome |-> "none"]

(***************************************************************************)
(* The transport: the session _get_session builds, and one               *)
(* session.request from its first attempt to the response or the          *)
(* exception the caller gets.                                              *)
(***************************************************************************)
\* self.status_forcelist
status_forcelist == { 500, 502, 504 }

\* The default of retries_number.
DEFAULT_RETRIES_NUMBER == 5

\* The values of retries_number the clients are constructed with.
RetriesNumbers == { 0, 2, DEFAULT_RETRIES_NUMBER }

\* The scheme of base_url, which every request URL starts with.
Schemes == { "https", "http" }

\* The methods the clients pass to session.request: GET everywhere, POST in
\* Client.search.
RequestMethods == { "GET", "POST" }

\* The statuses the server answers with, and whether the answer carries a
\* Retry-After header.
TransportStatuses == { 200, 401, 500, 502, 503, 504 }

\* Retry is built without allowed_methods and without
\* respect_retry_after_header: the methods retried on a status are the
\* library's default, and a Retry-After header is respected.
allowed_methods == { "HEAD", "GET", "PUT", "DELETE", "OPTIONS", "TRACE" }

RETRY_AFTER_STATUS_CODES == { 413, 429, 503 }

\* The Retry object of the adapter that serves a URL: the adapter
\* _get_session mounts serves "https://" only, the adapter a Session has for
\* "http://" retries nothing.  use_retries is stored by __init__ and read
\* nowhere.
RetryFor(scheme, retries_number) ==
    IF scheme = "https"
    THEN [total |-> retries_number, status_forcelist |-> status_forcelist]
    ELSE [total |-> 0, status_forcelist |-> {}]

\* Retry.is_retry: whether a response with this status is retried.
is_retry(retry, method, status_code, has_retry_after) ==
    IF method \notin allowed_methods
    THEN FALSE
    ELSE IF status_code \in retry.status_forcelist
    THEN TRUE
    ELSE /\ retry.total # 0
         /\ has_retry_after
         /\ status_code \in RETRY_AFTER_STATUS_CODES

NoTransport ==
    [use_retries |-> TRUE, retries_number |-> DEFAULT_RETRIES_NUMBER,
     scheme |-> "https", pc |-> "idle", method |-> "", total |-> 0,
     history |-> << >>, outcome |-> "none"]

\* The client calls session.request: the first attempt goes out.
session_request ==
    /\ transport.pc = "idle"
    /\ \E method \in RequestMethods :
        transport' = [transport EXCEPT
                        !.pc = "sent",
                        !.method = method,
                        !.total = RetryFor(transport.scheme,
                                           transport.retries_number).total,
                        !.history = << >>,
                        !.outcome = "none"]
    /\ UNCHANGED << chopVars, mainVars, cast, legacy >>

\* The server answers an attempt: the adapter sends the request again, or
\* raises RetryError when the retries are used up, or hands the response to
\* the caller of session.request.
adapter_send ==
    /\ transport.pc = "sent"
    /\ \E status_code \in TransportStatuses :
       \E has_retry_after \in
              IF status_code \in RETRY_AFTER_STATUS_CODES THEN BOOLEAN ELSE { FALSE } :
        LET retry == [RetryFor(transport.scheme, transport.retries_number)
                        EXCEPT !.total = transport.total]
            history == Append(transport.history, status_code)
        IN  IF is_retry(retry, transport.method, status_code, has_retry_after)
            THEN IF retry.total - 1 < 0
                 THEN transport' = [transport EXCEPT !.pc = "done",
                                                     !.total = retry.total - 1,
                                                     !.history = history,
                                                     !.outcome = "RetryError"]
                 ELSE transport' = [transport EXCEPT !.total = retry.total - 1,
                                                     !.history = history]
            ELSE transport' = [transport EXCEPT !.pc = "done",
                                                !.history = history,
                                                !.outcome = "response"]
    /\ UNCHANGED << chopVars, mainVars, cast, legacy >>

\* The caller has the response or the exception; the session is idle again.
session_done ==
    /\ transport.pc = "done"
    /\ transport' = [transport EXCEPT !.pc = "idle", !.method = "", !.total = 0,
                                      !.history = << >>, !.outcome = "none"]
    /\ UNCHANGED << chopVars, mainVars, cast, legacy >>

\* The clients as they are constructed: every use_retries, retries_number
\* and scheme of base_url.
TransportInit ==
    /\ chopLst = << >>
    /\ chopN = 1
    /\ chopOut = << >>
    /\ chopDone = TRUE
    /\ inst = "none"
    /\ headers = InitHeaders
    /\ pc = "idle"
    /\ call = NoCall
    /\ params = EmptyParams
    /\ iter_name = ""
    /\ chunks = << >>
    /\ bi = 0
    /\ cik_list = << >>
    /\ kwargs = NoKwargs
    /\ reqs = << >>
    /\ resps = << >>
    /\ pages = << >>
    /\ result = << >>
    /\ compound_data = << >>
    /\ outcome = "none"
    /\ scroll_id = ""
    /\ last_total_count = NoAttribute
    /\ last_search_parameters = "None"
    /\ gen = NoGenerator
    /\ \E use_retries \in BOOLEAN, retries_number \in RetriesNumbers,
          scheme \in Schemes :
        transport = [NoTransport EXCEPT !.use_retries = use_retries,
                                        !.retries_number = retries_number,
                                        !.scheme = scheme]
    /\ cast = NoCast
    /\ legacy = NoLegacy

TransportNext ==
    \/ session_request
    \/ adapter_send
    \/ session_done

SpecTransport == TransportInit /\ [][TransportNext]_vars

(***************************************************************************)
(* _cast_field_types as a pure function: every DataFrame of the bounded    *)
(* sets.  A DataFrame is a function from its columns to their cells; a     *)
(* cell is the text the server sent, None ("None"), pd.NA ("<NA>") or      *)
(* NaT.                                                                    *)
(***************************************************************************)
CastMaxRows == 2

FORM8_FIELD_TYPES == [gvk |-> "int64", item_value |-> "float64"]

FORM8_DATE_FIELDS ==
    { "form_publication_timestamp", "filing_date", "compustat_timestamp",
      "period_of_report", "creation_timestamp" }

\* The columns of the frames and the cells the server sends in them: a
\* number, the empty string, "NA", a text that is no number; a timestamp,
\* "NA", a text that is no timestamp.
CastColumns == { "gvk", "item_value", "filing_date" }

CellsOf(column) ==
    IF column \in FORM8_DATE_FIELDS
    THEN { "2020-01-01", "NA", "x" }
    ELSE { "1", "", "NA", "x" }

DataFrames ==
    UNION { { df \in [columns -> SeqsUpTo({ "1", "", "NA", "x", "2020-01-01" }, n)] :
                \A c \in columns :
                    /\ Len(df[c]) = n
                    /\ \A i \in 1..n : df[c][i] \in CellsOf(c) } :
            columns \in SUBSET CastColumns, n \in 1..CastMaxRows }

\* field_types = {key: field_types[key] for key in field_types if key in df.columns}
FieldTypesIn(df, field_types) ==
    [key \in DOMAIN field_types \cap DOMAIN df |-> field_types[key]]

\* df[field_name].apply(lambda x: None if x == "" else x) on the float64 fields.
EmptyToNone(df, field_types) ==
    [c \in DOMAIN df |->
        IF c \in DOMAIN field_types /\ field_types[c] = "float64"
        THEN [i \in 1..Len(df[c]) |-> IF df[c][i] = "" THEN "None" ELSE df[c][i]]
        ELSE df[c]]

\* df.replace("NA", pd.NA, inplace=True)
ReplaceNA(df) ==
    [c \in DOMAIN df |->
        [i \in 1..Len(df[c]) |-> IF df[c][i] = "NA" THEN "<NA>" ELSE df[c][i]]]

\* pd.to_datetime on a cell: a missing value gives NaT, a timestamp is
\* parsed, any other text raises.
ToDatetimeRaises(cell) == cell \notin { "2020-01-01", "<NA>", "None", "NaT" }

to_datetime(column) ==
    [i \in 1..Len(column) |->
        IF column[i] \in { "<NA>", "None" } THEN "NaT" ELSE column[i]]

\* astype on a cell: int64 takes a number, float64 a number or None (NaN);
\* the empty string, pd.NA and any other text raise.
AstypeRaises(cell, type) ==
    IF type = "int64" THEN cell # "1"
    ELSE IF type = "float64" THEN cell \notin { "1", "None" }
    ELSE FALSE

\* _cast_field_types: the exception that leaves the function, or
\* "returned", and the frame returned.
_cast_field_types(df, field_types) ==
    LET ft == FieldTypesIn(df, field_types)
        df1 == ReplaceNA(EmptyToNone(df, ft))
        dates == DOMAIN df1 \cap FORM8_DATE_FIELDS
        df2 == [c \in DOMAIN df1 |-> IF c \in dates THEN to_datetime(df1[c]) ELSE df1[c]]
    IN  IF \E c \in dates : \E i \in 1..Len(df1[c]) : ToDatetimeRaises(df1[c][i])
        THEN [outcome |-> "ValueError", df |-> df1]
        ELSE IF \E c \in DOMAIN ft : \E i \in 1..Len(df2[c]) : AstypeRaises(df2[c][i], ft[c])
        THEN [outcome |-> "CastException", df |-> df2]
        ELSE [outcome |-> "returned", df |-> df2]

CastInit ==
    /\ chopLst = << >>
    /\ chopN = 1
    /\ chopOut = << >>
    /\ chopDone = TRUE
    /\ inst = "none"
    /\ headers = InitHeaders
    /\ pc = "idle"
    /\ call = NoCall
    /\ params = EmptyParams
    /\ iter_name = ""
    /\ chunks = << >>
    /\ bi = 0
    /\ cik_list = << >>
    /\ kwargs = NoKwargs
    /\ reqs = << >>
    /\ resps = << >>
    /\ pages = << >>
    /\ result = << >>
    /\ compound_data = << >>
    /\ outcome = "none"
    /\ scroll_id = ""
    /\ last_total_count = NoAttribute
    /\ last_search_parameters = "None"
    /\ gen = NoGenerator
    /\ transport = NoTransport
    /\ \E df \in DataFrames : cast = [NoCast EXCEPT !.df = df, !.done = FALSE]
    /\ legacy = NoLegacy

CastApply ==
    /\ ~cast.done
    /\ LET r == _cast_field_types(cast.df, FORM8_FIELD_TYPES)
       IN  cast' = [cast EXCEPT !.done = TRUE, !.outcome = r.outcome, !.out = r.df]
    /\ UNCHANGED << chopVars, mainVars, transport, legacy >>

CastNext == CastApply

SpecCast == CastInit /\ [][CastNext]_vars

(***************************************************************************)
(* edgar_client.py, the legacy client: the walkers that page by offset.    *)
(***************************************************************************)
MaxLegacyRequests == 4

CIK_BLOCK_SIZE == 600

sys_maxsize == 2147483647

LegacyWalkers == { "headers", "form4_13", "form8" }

PAYLOAD_BLOCK_SIZE == [headers |-> 1000, form4_13 |-> 500, form8 |-> 1000]

\* The cik the caller passed: None, one identifier, an empty list, a short
\* list and a list of more than one block.
LegacyCiks ==
    { PyNone, PyScalar(1), PyList(<< >>), PyList(<< 1, 2 >>),
      PyList(Asc(CIK_BLOCK_SIZE + 1)) }

\* The responses of the server to a walker with page size B: a page and the
\* count of all rows, or a response _make_request raises on.
LegacyResponses(B) ==
    { [status |-> 200, count |-> n] : n \in { 0, B, B + 1, 2 * B + 1 } }
    \cup { [status |-> 401, count |-> 0] }

\* The number of batches of a walker: _payload_form_headers_generator goes
\* once for None and for an integer and once per block of a list;
\* _payload_form4_13_generator and _payload_form8_generator go once per
\* element of iter_list / cik_list.
LegacyBatches(walker, cik) ==
    IF cik.kind # "list" THEN 1
    ELSE IF walker = "headers"
    THEN (Len(cik.v) + CIK_BLOCK_SIZE - 1) \div CIK_BLOCK_SIZE
    ELSE Len(cik.v)

\* The cik entry of params during batch b.
LegacyBatchCik(walker, cik, b) ==
    IF cik.kind # "list" THEN cik
    ELSE IF walker = "headers"
    THEN PyList(SubSeq(cik.v, (b - 1) * CIK_BLOCK_SIZE + 1,
                       Min(b * CIK_BLOCK_SIZE, Len(cik.v))))
    ELSE PyScalar(cik.v[b])

\* A loop test that lets the walker ask for the offset equal to the count.
LegacyContinues_inclusive(current_offset, count_lines) == current_offset <= count_lines

\* while current_offset < count_lines
LegacyContinues(current_offset, count_lines) == current_offset < count_lines

\* kwargs['params']["offset"] = current_offset; self._make_request(*args, **kwargs)
LegacyRequest(walker, cik, b, current_offset) ==
    [batch |-> b, offset |-> current_offset, cik |-> LegacyBatchCik(walker, cik, b)]

\* The walker from the head of batch b on: current_offset = 0 and
\* count_lines = sys.maxsize, so the first request of the batch goes out;
\* after the last batch the generator is exhausted.
LegacyBatch(walker, cik, b, l) ==
    IF b <= LegacyBatches(walker, cik)
    THEN /\ Len(l.reqs) < MaxLegacyRequests
         /\ LegacyContinues(0, sys_maxsize)
         /\ legacy' = [l EXCEPT !.pc = "wait", !.b = b, !.current_offset = 0,
                                !.count_lines = sys_maxsize,
                                !.reqs = Append(@, LegacyRequest(walker, cik, b, 0))]
    ELSE legacy' = [l EXCEPT !.pc = "done", !.b = b, !.outcome = "returned"]

\* A method of the legacy EdgarClient starts its walker.
legacy_call ==
    /\ legacy.pc = "idle"
    /\ \E walker \in LegacyWalkers, cik \in LegacyCiks :
        LegacyBatch(walker, cik, 1,
                    [NoLegacy EXCEPT !.walker = walker, !.cik = cik])
    /\ UNCHANGED << chopVars, mainVars, transport, cast >>

\* The walker from a response on: it yields the page, takes the count, adds
\* the page size to the offset and asks for the next page of the batch, or
\* goes to the next batch.
legacy_response ==
    /\ legacy.pc = "wait"
    /\ \E resp \in LegacyResponses(PAYLOAD_BLOCK_SIZE[legacy.walker]) :
        LET l == [legacy EXCEPT !.resps = Append(@, resp)]
            current_offset == legacy.current_offset + PAYLOAD_BLOCK_SIZE[legacy.walker]
        IN  IF AbstractMakeRequest(resp.status) # "ok"
            THEN legacy' = [l EXCEPT !.pc = "done",
                                     !.outcome = AbstractMakeRequest(resp.status)]
            ELSE IF LegacyContinues(current_offset, resp.count)
            THEN /\ Len(l.reqs) < MaxLegacyRequests
                 /\ legacy' = [l EXCEPT
                        !.current_offset = current_offset,
                        !.count_lines = resp.count,
                        !.reqs = Append(@, LegacyRequest(legacy.walker, legacy.cik,
                                                         legacy.b, current_offset))]
            ELSE LegacyBatch(legacy.walker, legacy.cik, legacy.b + 1,
                             [l EXCEPT !.current_offset = current_offset,
                                       !.count_lines = resp.count])
    /\ UNCHANGED << chopVars, mainVars, transport, cast >>

\* The caller has the pages or the exception.
legacy_return ==
    /\ legacy.pc = "done"
    /\ legacy' = NoLegacy
    /\ UNCHANGED << chopVars, mainVars, transport, cast >>

LegacyInit ==
    /\ chopLst = << >>
    /\ chopN = 1
    /\ chopOut = << >>
    /\ chopDone = TRUE
    /\ inst = "none"
    /\ headers = InitHeaders
    /\ pc = "idle"
    /\ call = NoCall
    /\ params = EmptyParams
    /\ iter_name = ""
    /\ chunks = << >>
    /\ bi = 0
    /\ cik_list = << >>
    /\ kwargs = NoKwargs
    /\ reqs = << >>
    /\ resps = << >>
    /\ pages = << >>
    /\ result = << >>
    /\ compound_data = << >>
    /\ outcome = "none"
    /\ scroll_id = ""
    /\ last_total_count = NoAttribute
    /\ last_search_parameters = "None"
    /\ gen = NoGenerator
    /\ transport = NoTransport
    /\ cast = NoCast
    /\ legacy = NoLegacy

LegacyNext ==
    \/ legacy_call
    \/ legacy_response
    \/ legacy_return

SpecLegacy == LegacyInit /\ [][LegacyNext]_vars

(***************************************************************************)
(* The calls of one client object.                                         *)
(***************************************************************************)
\* The caller takes the result or the exception; the client is idle again.
Return ==
    /\ pc = "done"
    /\ pc' = "idle"
    /\ call' = NoCall
    /\ params' = EmptyParams
    /\ iter_name' = ""
    /\ chunks' = << >>
    /\ bi' = 0
    /\ cik_list' = << >>
    /\ kwargs' = NoKwargs
    /\ reqs' = << >>
    /\ resps' = << >>
    /\ pages' = << >>
    /\ result' = << >>
    /\ compound_data' = << >>
    /\ outcome' = "none"
    /\ UNCHANGED << headers, clientVars >>

Init ==
    /\ chopLst = << >>
    /\ chopN = 1
    /\ chopOut = << >>
    /\ chopDone = TRUE
    /\ inst \in { "EdgarClient", "ItemMapper", "GvkCikMapper", "Client" }
    /\ headers = InitHeaders
    /\ pc = "idle"
    /\ call = NoCall
    /\ params = EmptyParams
    /\ iter_name = ""
    /\ chunks = << >>
    /\ bi = 0
    /\ cik_list = << >>
    /\ kwargs = NoKwargs
    /\ reqs = << >>
    /\ resps = << >>
    /\ pages = << >>
    /\ result = << >>
    /\ compound_data = << >>
    /\ outcome = "none"
    /\ scroll_id = ""
    /\ last_total_count = NoAttribute
    /\ last_search_parameters = "None"
    /\ gen = NoGenerator
    /\ transport = NoTransport
    /\ cast = NoCast
    /\ legacy = NoLegacy

Next ==
    \/ (get_form_headers /\ UNCHANGED << sideVars, inst, clientVars >>)
    \/ (get_form4_payload /\ UNCHANGED << sideVars, inst, clientVars >>)
    \/ (get_form8_payload /\ UNCHANGED << sideVars, inst, clientVars >>)
    \/ (get_form13_payload /\ UNCHANGED << sideVars, inst, clientVars >>)
    \/ (PageResponse /\ UNCHANGED << sideVars, inst, clientVars >>)
    \/ (get_form10_payload /\ UNCHANGED << sideVars, inst, clientVars >>)
    \/ (Form10Response /\ UNCHANGED << sideVars, inst, clientVars >>)
    \/ (SimpleCall /\ UNCHANGED << sideVars, inst, clientVars >>)
    \/ (SimpleResponse /\ UNCHANGED << sideVars, inst, clientVars >>)
    \/ (search /\ UNCHANGED << sideVars, inst >>)
    \/ (searchResponse /\ UNCHANGED << sideVars, inst >>)
    \/ (search_scroll /\ UNCHANGED << sideVars, inst >>)
    \/ (search_scrollResponse /\ UNCHANGED << sideVars, inst >>)
    \/ (search_pages /\ UNCHANGED << sideVars, inst >>)
    \/ (pagesNext /\ UNCHANGED << sideVars, inst >>)
    \/ (pagesResponse /\ UNCHANGED << sideVars, inst >>)
    \/ (get_payload /\ UNCHANGED << sideVars, inst >>)
    \/ (get_metadata_type /\ UNCHANGED << sideVars, inst >>)
    \/ (parseResponse /\ UNCHANGED << sideVars, inst >>)
    \/ (Return /\ UNCHANGED << sideVars, inst >>)

Spec == Init /\ [][Next]_vars

(***************************************************************************)
(* chop_list as a pure function: every input of the bounded sets.          *)
(***************************************************************************)
ChopInit ==
    /\ chopLst \in SeqsUpTo(1..ChopMaxId, ChopMaxLen)
    /\ chopN \in 1..ChopMaxN
    /\ chopOut = << >>
    /\ chopDone = FALSE
    /\ inst = "none"
    /\ headers = InitHeaders
    /\ pc = "idle"
    /\ call = NoCall
    /\ params = EmptyParams
    /\ iter_name = ""
    /\ chunks = << >>
    /\ bi = 0
    /\ cik_list = << >>
    /\ kwargs = NoKwargs
    /\ reqs = << >>
    /\ resps = << >>
    /\ pages = << >>
    /\ result = << >>
    /\ compound_data = << >>
    /\ outcome = "none"
    /\ scroll_id = ""
    /\ last_total_count = NoAttribute
    /\ last_search_parameters = "None"
    /\ gen = NoGenerator
    /\ transport = NoTransport
    /\ cast = NoCast
    /\ legacy = NoLegacy

ChopApply ==
    /\ ~chopDone
    /\ chopOut' = chop_list(chopLst, chopN)
    /\ chopDone' = TRUE
    /\ UNCHANGED << chopLst, chopN, mainVars, transport, cast, legacy >>

ChopNext == ChopApply

SpecChop == ChopInit /\ [][ChopNext]_vars

(***************************************************************************)
(* Properties.                                                             *)
(***************************************************************************)
\* The identifiers a request carries in a parameter (none when the key is
\* missing, one for a scalar).
NumIds(value) == Len(value.v)

\* The requests of this call that carry the params dict (the first request
\* of every batch), and the identifiers they carry under a key, in order.
RECURSIVE SentIdsFrom(_, _)
SentIdsFrom(name, i) ==
    IF i > Len(reqs) THEN << >>
    ELSE (IF reqs[i].hasParams THEN reqs[i].params[name].v ELSE << >>)
            \o SentIdsFrom(name, i + 1)

SentIds(name) == SentIdsFrom(name, 1)

SetOf(seq) == { seq[i] : i \in DOMAIN seq }

StrictlyAscending(seq) == \A i \in 1..(Len(seq) - 1) : seq[i] < seq[i + 1]

\* The key the batch loop iterates over for the arguments of the call.
ListKey == IF call.cik.kind # "none" THEN "cik" ELSE "cusip"

\* C1: in every request of get_form_headers, get_form4_payload,
\* get_form8_payload, get_form13_payload and get_form10_payload the cik and
\* the cusip parameter hold at most ITEM_BLOCK_SIZE identifiers, whatever
\* the length of the caller's list.
C1_BatchSizeBounded ==
    call.endpoint \in GenEndpoints \cup { "form10" } =>
        \A i \in DOMAIN reqs :
            /\ NumIds(reqs[i].params.cik) <= ITEM_BLOCK_SIZE
            /\ NumIds(reqs[i].params.cusip) <= ITEM_BLOCK_SIZE

\* C1 witness: a list longer than a batch was passed, a full batch was sent
\* and the request of the next batch has been issued.
C1_Witness ==
    /\ call.endpoint \in GenEndpoints
    /\ call.cik.kind = "list"
    /\ Len(call.cik.v) > ITEM_BLOCK_SIZE
    /\ Len(reqs) >= 2
    /\ NumIds(reqs[1].params.cik) = ITEM_BLOCK_SIZE
    /\ reqs[2].hasParams
    /\ reqs[2].batch = 2

\* C2: chop_list(lst, n) for n >= 1: the batches concatenated in order are
\* lst, every batch has between 1 and n elements, and every batch but the
\* last has exactly n.
C2_ChopList ==
    chopDone =>
        /\ Flatten(chopOut) = chopLst
        /\ \A i \in DOMAIN chopOut : Len(chopOut[i]) >= 1 /\ Len(chopOut[i]) <= chopN
        /\ \A i \in 1..(Len(chopOut) - 1) : Len(chopOut[i]) = chopN

\* C2 witness: chop_list produced several batches, the last one short.
C2_Witness ==
    /\ chopDone
    /\ chopN >= 2
    /\ Len(chopOut) >= 3
    /\ Len(chopOut[Len(chopOut)]) < chopN

\* C3 as claimed: once a form endpoint with a cik or cusip list has
\* returned, the identifiers it sent, batch after batch, are the caller's
\* list element for element.
C3_SentIsCallerList ==
    (/\ call.endpoint \in GenEndpoints
     /\ outcome = "returned"
     /\ call[ListKey].kind = "list")
        => SentIds(ListKey) = call[ListKey].v

\* C3 amended: the identifiers sent are in strictly ascending order and are
\* identifiers of the caller's list, and once the endpoint has returned
\* every identifier of the caller's list has been sent (exactly once: the
\* order is strict). The caller's order is not kept and a duplicate is
\* dropped.
C3_SentIsSortedDistinct ==
    (call.endpoint \in GenEndpoints /\ call[ListKey].kind = "list") =>
        /\ StrictlyAscending(SentIds(ListKey))
        /\ SetOf(SentIds(ListKey)) \subseteq SetOf(call[ListKey].v)
        /\ outcome = "returned" => SetOf(SentIds(ListKey)) = SetOf(call[ListKey].v)

\* C3 witness: an endpoint returned for a list that is not in ascending
\* order or holds a duplicate.
C3_Witness ==
    /\ call.endpoint \in GenEndpoints
    /\ outcome = "returned"
    /\ call[ListKey].kind = "list"
    /\ Len(call[ListKey].v) >= 2
    /\ ~StrictlyAscending(call[ListKey].v)
    /\ Len(reqs) >= 1

CeilDiv(a, b) == (a + b - 1) \div b

\* The walkers started in this call (one per batch requested so far) and
\* the number of identifiers the walker of batch k sent.
NumWalkers == Cardinality({ i \in DOMAIN reqs : reqs[i].hasParams })

BatchSize(k) ==
    LET i == CHOOSE j \in DOMAIN reqs : reqs[j].hasParams /\ reqs[j].batch = k
    IN  NumIds(reqs[i].params[ListKey])

\* A response the walker decodes into a page.
IsPage(resp) == resp.status = 200 /\ resp.body = "ok"

RECURSIVE SumLen(_)
SumLen(seqs) == IF seqs = << >> THEN 0 ELSE Len(Head(seqs)) + SumLen(Tail(seqs))

\* The records of a multi-table page or accumulator, over all its tables.
RECURSIVE SumOverKeys(_, _)
SumOverKeys(f, keys) ==
    IF keys = {} THEN 0
    ELSE LET k == CHOOSE x \in keys : TRUE
         IN  Len(f[k]) + SumOverKeys(f, keys \ { k })

Records(f) == SumOverKeys(f, DOMAIN f)

RECURSIVE PageRecordsFrom(_)
PageRecordsFrom(i) ==
    IF i > Len(pages) THEN 0
    ELSE (IF call.endpoint \in DictEndpoints
          THEN Records(pages[i].data) ELSE Len(pages[i].data))
            + PageRecordsFrom(i + 1)

\* The rows of all pages of all batches, and the rows of the merged result.
PageRecords == PageRecordsFrom(1)
ResultRecords ==
    IF call.endpoint \in DictEndpoints THEN Records(compound_data) ELSE Len(result)

\* The requests of a call are answered one at a time, the batches are
\* requested in order, a batch starts with the request that carries the
\* params and only after the last page of the batch before.
OneAfterAnother ==
    /\ Len(reqs) >= Len(resps)
    /\ Len(reqs) <= Len(resps) + 1
    /\ pc = "wait" <=> Len(reqs) = Len(resps) + 1
    /\ \A i \in DOMAIN reqs :
        /\ i = 1 => reqs[i].batch = 1 /\ reqs[i].hasParams
        /\ i > 1 =>
            /\ IsPage(resps[i - 1])
            /\ IF HasNextLink(resps[i - 1])
               THEN reqs[i].batch = reqs[i - 1].batch /\ ~reqs[i].hasParams
               ELSE reqs[i].batch = reqs[i - 1].batch + 1 /\ reqs[i].hasParams

\* C4 as claimed: a list of L identifiers is fetched as exactly
\* ceil(L / ITEM_BLOCK_SIZE) paginated fetches.
C4_FetchesPerListLength ==
    (/\ call.endpoint \in GenEndpoints
     /\ outcome = "returned"
     /\ call[ListKey].kind = "list")
        => NumWalkers = CeilDiv(Len(call[ListKey].v), ITEM_BLOCK_SIZE)

\* C4 amended: a list with D distinct identifiers is fetched as exactly
\* ceil(D / ITEM_BLOCK_SIZE) paginated fetches, every batch full but the
\* last, run one after another in batch order, each request answered
\* before the next is issued; the merged result has as many rows as all
\* pages of all batches together.
C4_FetchesPerDistinct ==
    (call.endpoint \in GenEndpoints /\ call[ListKey].kind = "list") =>
        LET D == Cardinality(SetOf(call[ListKey].v))
            n == CeilDiv(D, ITEM_BLOCK_SIZE)
        IN  /\ OneAfterAnother
            /\ NumWalkers <= n
            /\ \A k \in 1..NumWalkers :
                BatchSize(k) = IF k < n THEN ITEM_BLOCK_SIZE
                               ELSE D - ITEM_BLOCK_SIZE * (n - 1)
            /\ outcome = "returned" =>
                /\ NumWalkers = n
                /\ ResultRecords = PageRecords
                /\ Len(pages) = Len(resps)

\* C4 witness: 2 * ITEM_BLOCK_SIZE + MaxTail identifiers (1,200) were
\* fetched in three batches of 500, 500 and MaxTail, and rows were merged.
C4_Witness ==
    /\ call.endpoint \in GenEndpoints
    /\ outcome = "returned"
    /\ call.cik.kind = "list"
    /\ Len(call.cik.v) = 2 * ITEM_BLOCK_SIZE + MaxTail
    /\ NumWalkers = 3
    /\ BatchSize(1) = ITEM_BLOCK_SIZE
    /\ BatchSize(2) = ITEM_BLOCK_SIZE
    /\ BatchSize(3) = MaxTail
    /\ ResultRecords >= 4

\* The lists of a table in the pages from page i on, in page order, joined.
RECURSIVE ConcatKeyFrom(_, _)
ConcatKeyFrom(key, i) ==
    IF i > Len(pages) THEN << >>
    ELSE (IF key \in DOMAIN pages[i].data THEN pages[i].data[key] ELSE << >>)
            \o ConcatKeyFrom(key, i + 1)

\* C5: the accumulator of _get_form4_13_payload has the union of the keys
\* of the pages received, and under every key the lists of that key joined
\* in page-arrival order, so as many records as the pages hold for it.
C5_MergeConcatenates ==
    call.endpoint \in DictEndpoints =>
        /\ DOMAIN compound_data = UNION { DOMAIN pages[i].data : i \in DOMAIN pages }
        /\ \A key \in DOMAIN compound_data :
            /\ compound_data[key] = ConcatKeyFrom(key, 1)
            /\ Len(compound_data[key]) =
                  SumLen([i \in DOMAIN pages |->
                            IF key \in DOMAIN pages[i].data
                            THEN pages[i].data[key] ELSE << >>])

\* C5 witness: pages were merged of which two hold records of one table
\* and only one holds another table.
C5_Witness ==
    /\ call.endpoint \in DictEndpoints
    /\ \E i, j \in DOMAIN pages :
        /\ i < j
        /\ \E key \in DOMAIN pages[i].data \cap DOMAIN pages[j].data :
            /\ pages[i].data[key] # << >>
            /\ pages[j].data[key] # << >>
            /\ pages[i].data[key] # pages[j].data[key]
        /\ DOMAIN pages[i].data # DOMAIN pages[j].data

RequestsOfBatch(b) == Cardinality({ i \in DOMAIN reqs : reqs[i].batch = b })
PagesOfBatch(b) == Cardinality({ i \in DOMAIN pages : pages[i].batch = b })

\* The walker of batch b has finished.
WalkerFinished(b) ==
    /\ b >= 1
    /\ b <= Len(chunks)
    /\ b < bi \/ outcome = "returned"

\* C6: when a response has no "next" link the walker yields its page and
\* issues no further request; a walker that has finished has issued
\* exactly one request per page it yielded.
C6_WalkerStops ==
    call.endpoint \in GenEndpoints =>
        /\ \A i \in DOMAIN resps :
            (IsPage(resps[i]) /\ resps[i].next = "None") =>
                /\ Len(pages) >= i
                /\ pages[i].batch = reqs[i].batch
                /\ pages[i].data = resps[i].data
                /\ \A j \in DOMAIN reqs : j > i => reqs[j].batch > reqs[i].batch
                /\ WalkerFinished(reqs[i].batch)
        /\ \A b \in 1..Len(chunks) :
            WalkerFinished(b) => RequestsOfBatch(b) = PagesOfBatch(b) /\ PagesOfBatch(b) >= 1

\* C6 witness: a walker followed a "next" link, then received a page
\* without one and finished; the endpoint returned.
C6_Witness ==
    /\ call.endpoint \in GenEndpoints
    /\ outcome = "returned"
    /\ Len(resps) >= 2
    /\ resps[1].next # "None"
    /\ resps[2].next = "None"
    /\ reqs[2].batch = 1
    /\ WalkerFinished(1)
    /\ RequestsOfBatch(1) = 2

\* C7 as claimed: within one paginated fetch no next URL is requested
\* twice by a link walker and no scroll id is sent twice by search_pages.
C7_NoCursorTwice ==
    /\ call.endpoint \in GenEndpoints =>
        \A i, j \in DOMAIN reqs :
            (/\ i < j
             /\ reqs[i].batch = reqs[j].batch
             /\ ~reqs[i].hasParams
             /\ ~reqs[j].hasParams) => reqs[i].url # reqs[j].url
    /\ \A i, j \in DOMAIN gen.sent : i < j => gen.sent[i] # gen.sent[j]

\* C7 amended: a link walker requests a URL a second time only when a
\* response in between named that URL as "next" again; a search_pages
\* generator sends a scroll id a second time only when a response the
\* client stored returned that id again after it was sent; search_scroll
\* always sends the scroll id the client has stored, and does not store
\* the one returned.
C7_CursorRepeatsOnlyIfReturned ==
    /\ call.endpoint \in GenEndpoints =>
        \A i, j \in DOMAIN reqs :
            (/\ i < j
             /\ reqs[i].batch = reqs[j].batch
             /\ reqs[i].url = reqs[j].url) =>
                \E k \in i..(j - 1) : IsPage(resps[k]) /\ resps[k].next = reqs[j].url
    /\ \A i, j \in DOMAIN gen.sent :
        (i < j /\ gen.sent[i] = gen.sent[j]) => gen.sent[i] \in gen.reissued
    /\ call.endpoint = "search_scroll" =>
        /\ Len(reqs) = 1
        /\ reqs[1].params.scroll_id = PyScalar(scroll_id)
    /\ (call.endpoint = "search_pages" /\ reqs # << >>) =>
        /\ Len(reqs) = 1
        /\ reqs[1].params.scroll_id = PyScalar(gen.sent[Len(gen.sent)])

\* C7 witness: a link walker was handed the same "next" URL by two
\* responses in a row and requested it twice.
C7_Witness ==
    /\ call.endpoint \in GenEndpoints
    /\ Len(reqs) >= 3
    /\ reqs[2].batch = reqs[3].batch
    /\ reqs[2].url = reqs[3].url
    /\ resps[1].next = reqs[2].url
    /\ resps[2].next = reqs[3].url

\* The request that started the walker of batch b.
FirstOfBatch(b) == CHOOSE i \in DOMAIN reqs : reqs[i].hasParams /\ reqs[i].batch = b

\* C8: whenever a response of a link walker has a "next" link, the next
\* request goes to exactly that URL, carries no query parameters, and has
\* the method and the headers of the walker's first request.
C8_NextStep ==
    call.endpoint \in GenEndpoints =>
        \A i \in DOMAIN resps :
            (IsPage(resps[i]) /\ HasNextLink(resps[i])) =>
                /\ Len(reqs) >= i + 1
                /\ reqs[i + 1].url = resps[i].next
                /\ ~reqs[i + 1].hasParams
                /\ reqs[i + 1].params = EmptyParams
                /\ reqs[i + 1].batch = reqs[i].batch
                /\ reqs[i + 1].method = reqs[FirstOfBatch(reqs[i].batch)].method
                /\ reqs[i + 1].headers = reqs[FirstOfBatch(reqs[i].batch)].headers

\* C8 witness: a walker that sent identifiers followed two different
\* "next" links one after the other.
C8_Witness ==
    /\ call.endpoint \in GenEndpoints
    /\ Len(reqs) >= 3
    /\ NumIds(reqs[1].params[ListKey]) >= 1
    /\ resps[1].next = "next1"
    /\ resps[2].next = "next2"
    /\ reqs[2].url = "next1"
    /\ reqs[3].url = "next2"
    /\ reqs[3].params = EmptyParams

\* C9: a response with status 401 makes the call raise
\* UnauthorizedException, and the call issues no request after it: the 401
\* is the last response of the call and answers its last request.
C9_Unauthorized ==
    \A i \in DOMAIN resps :
        resps[i].status = 401 =>
            /\ i = Len(resps)
            /\ i = Len(reqs)
            /\ pc = "done"
            /\ outcome = "UnauthorizedException"
            /\ call.endpoint = "search_pages" => gen.state = "finished"

\* C9 witness: a 401 answered a later request of a call that had batches
\* left to fetch.
C9_Witness ==
    /\ call.endpoint \in GenEndpoints
    /\ Len(resps) >= 2
    /\ resps[Len(resps)].status = 401
    /\ bi < Len(chunks)
    /\ outcome = "UnauthorizedException"

\* C10 as claimed: a call whose last response has a status that is neither
\* 200 nor 401 raises ParseResponseException, and a call that returns or
\* yields a value has received responses of status 200 only.
C10_NonOkRaises ==
    /\ (/\ pc = "done"
        /\ resps # << >>
        /\ resps[Len(resps)].status \notin { 200, 401 })
            => outcome = "ParseResponseException"
    /\ outcome \in { "returned", "yielded" } =>
        \A i \in DOMAIN resps : resps[i].status = 200

\* A 200 response whose body is no JSON or lacks a key the endpoint reads.
Malformed(resp) == resp.status = 200 /\ resp.body # "ok"

\* C11 as claimed: a call whose last response has status 200 and a body
\* that is no JSON or lacks an expected key raises
\* ParseResponseException, and no other exception.
C11_MalformedRaisesParse ==
    (/\ pc = "done"
     /\ resps # << >>
     /\ Malformed(resps[Len(resps)])
     /\ call.endpoint # "search_scroll")
        => outcome = "ParseResponseException"

\* C12: get_form13_payload called with both cik and cusip raises
\* AssertionError and issues no request, whatever the other arguments.
C12_CikAndCusip ==
    (/\ call.endpoint = "form13"
     /\ call.cik.kind # "none"
     /\ call.cusip.kind # "none")
        => /\ pc = "done"
           /\ outcome = "AssertionError"
           /\ reqs = << >>
           /\ resps = << >>

\* C12 witness: the call had a cik, a cusip, an accepted date_mode and a
\* start_datetime that validate_date rejects, and raised AssertionError.
C12_Witness ==
    /\ call.endpoint = "form13"
    /\ call.cik.kind = "list"
    /\ call.cusip.kind = "scalar"
    /\ call.args.date_mode = PyScalar("publication_date")
    /\ call.args.start_datetime.kind # "none"
    /\ ~validate_date(call.args.start_datetime.v[1])
    /\ outcome = "AssertionError"
    /\ reqs = << >>

\* C13 as claimed: an output_type that is neither "dict" nor "dataframes",
\* passed to get_form_headers, get_form4_payload or get_form13_payload, is
\* rejected with AssertionError before any request is issued.
C13_OutputTypeRejectedFirst ==
    (/\ call.endpoint \in { "headers", "form4", "form13" }
     /\ call.args.output_type \notin { "dict", "dataframes" })
        => /\ pc = "done"
           /\ outcome = "AssertionError"
           /\ reqs = << >>

\* Every response of the call so far was decoded into a page.
AllPages == \A i \in DOMAIN resps : IsPage(resps[i])

\* C14 as claimed: with output_type "dict" and well-formed responses,
\* get_form4_payload and get_form13_payload return the accumulated mapping
\* and get_form_headers returns the accumulated list, without raising.
C14_DictSupported ==
    (/\ call.endpoint \in { "headers", "form4", "form13" }
     /\ call.args.output_type = "dict"
     /\ pc = "done"
     /\ AllPages)
        => /\ outcome = "returned"
           /\ call.endpoint \in DictEndpoints => result = compound_data
           /\ ResultRecords = PageRecords

\* The records of the page a response carries.
RowsOf(resp) ==
    IF call.endpoint \in DictEndpoints THEN Records(resp.data) ELSE Len(resp.data)

\* C15: when every page of every batch holds zero records, the call (with
\* the default output type) returns an empty result: get_form8_payload,
\* get_form_headers and get_form10_payload no rows, get_form4_payload and
\* get_form13_payload an empty mapping or a mapping of empty tables.
C15_EmptyResult ==
    (/\ call.endpoint \in GenEndpoints \cup { "form10" }
     /\ call.args.output_type = "dataframes"
     /\ pc = "done"
     /\ resps # << >>
     /\ \A i \in DOMAIN resps : IsPage(resps[i]) /\ RowsOf(resps[i]) = 0)
        => /\ outcome = "returned"
           /\ IF call.endpoint \in DictEndpoints
              THEN /\ Records(result) = 0
                   /\ DOMAIN result = UNION { DOMAIN resps[i].data : i \in DOMAIN resps }
              ELSE result = << >>

\* C15 witness: a call over two batches received only pages without
\* records, one of them after a "next" link, and returned.
C15_Witness ==
    /\ call.endpoint \in GenEndpoints
    /\ outcome = "returned"
    /\ Len(resps) >= 3
    /\ bi > 2
    /\ \E i \in DOMAIN resps : HasNextLink(resps[i])
    /\ \A i \in DOMAIN resps : IsPage(resps[i]) /\ RowsOf(resps[i]) = 0
    /\ ResultRecords = 0

\* The endpoints that take start_datetime, end_datetime and date_mode.
DatedEndpoints == GenEndpoints \cup { "form10" }

\* A date argument that is given and lacks a part of the accepted format.
Unparsable(value) ==
    /\ value.kind # "none"
    /\ value.v[1].ymd = "" \/ value.v[1].hms = "" \/ value.v[1].tz = ""

\* The call has a cik and a cusip, which _get_form4_13_payload rejects.
CikAndCusip ==
    /\ call.endpoint \in DictEndpoints
    /\ call.cik.kind # "none"
    /\ call.cusip.kind # "none"

\* The three rejected combinations of dates and date_mode.
DateModeRejected(a) ==
    LET dateGiven == a.start_datetime.kind # "none" \/ a.end_datetime.kind # "none"
    IN  \/ a.date_mode.kind # "none" /\ ~dateGiven
        \/ dateGiven /\ a.date_mode.kind = "none"
        \/ /\ dateGiven
           /\ a.date_mode \notin { PyScalar("publication_date"), PyScalar("knowledge_date") }

C17_CheckDateMode ==
    call.endpoint \in DatedEndpoints =>
        LET a == call.args
            raised == check_date_mode(a.start_datetime, a.end_datetime, a.date_mode)
        IN  /\ raised = "AssertionError" <=> DateModeRejected(a)
            /\ raised = "ok" <=> ~DateModeRejected(a)
            /\ DateModeRejected(a) =>
                /\ pc = "done"
                /\ outcome = "AssertionError"
                /\ reqs = << >>
            /\ (/\ ~DateModeRejected(a)
                /\ ~CikAndCusip
                /\ a.output_type = "dataframes"
                /\ pc = "done")
                    => outcome # "AssertionError"

\* C17 witness: a call with a start_datetime and a date_mode that is not in
\* DATE_MODE raised AssertionError without a request.
C17_Witness ==
    /\ call.endpoint \in DatedEndpoints
    /\ call.args.start_datetime.kind # "none"
    /\ call.args.date_mode = PyScalar("filing_date")
    /\ ~CikAndCusip
    /\ outcome = "AssertionError"
    /\ reqs = << >>

\* C18: get_metadata_type called with a name that is no key of
\* METADATA_ROUTES raises BadMetaDataTypeException and issues no request;
\* with a key it issues its request.
C18_BadMetadataType ==
    call.endpoint = "get_metadata_type" =>
        IF call.args.metadata_type \in
              { "COMMODITIES", "BUSINESS-CATEGORIES", "COUNTRIES", "FREQUENCIES" }
        THEN Len(reqs) = 1 /\ outcome # "BadMetaDataTypeException"
        ELSE /\ pc = "done"
             /\ outcome = "BadMetaDataTypeException"
             /\ reqs = << >>
             /\ resps = << >>

\* C18 witness: the call with the name "Stranger Things" raised
\* BadMetaDataTypeException without a request.
C18_Witness ==
    /\ call.endpoint = "get_metadata_type"
    /\ call.args.metadata_type = "Stranger Things"
    /\ outcome = "BadMetaDataTypeException"
    /\ reqs = << >>

\* C19 as claimed: after a search, a search_pages(pages_limit=N) generator
\* that the caller runs to its end, with a positive total count and only
\* non-empty pages, has yielded N pages, one scroll request each.
C19_YieldsLimitPages ==
    (/\ call.endpoint = "search_pages"
     /\ outcome = "StopIteration"
     /\ scroll_id # ""
     /\ gen.row_count > 0)
        => Len(gen.sent) = gen.pages_limit

C21_SharedCursorClobbered ==
    [][/\ (call.endpoint = "search" /\ pc = "wait" /\ outcome' = "returned") =>
            /\ scroll_id' = resps'[1].scroll_id
            /\ last_total_count' = Attribute(resps'[1].total_count)
       /\ (/\ pc = "idle"
           /\ pc' = "wait"
           /\ call'.endpoint \in { "search_scroll", "search_pages" }) =>
            /\ reqs'[1].params.scroll_id = PyScalar(scroll_id)
            /\ scroll_id' = scroll_id
            /\ (call'.endpoint = "search_pages" /\ gen.state = "created") =>
                    gen'.row_count = last_total_count.v]_vars

\* C21 witness: a generator that had yielded a page of one search sent,
\* after another search with another number of rows had returned, the
\* scroll id stored by that search.
C21_Witness ==
    /\ call.endpoint = "search_pages"
    /\ pc = "wait"
    /\ Len(gen.sent) = 2
    /\ gen.sent[1] # gen.sent[2]
    /\ gen.sent[1] \notin gen.reissued
    /\ gen.last_rows # gen.row_count
    /\ reqs[1].params.scroll_id = PyScalar(scroll_id)

\* The attempts of the session.request in progress that went out.
Attempts ==
    IF transport.pc = "sent"
    THEN Len(transport.history) + 1
    ELSE Len(transport.history)

\* C22: a response with status 500, 502 or 504 is retried at most
\* retries_number times and reaches the caller only when the retries are
\* used up; a response with any other status is never retried.
C22_RetriedUntilExhausted ==
    /\ Attempts <= 1 + transport.retries_number
    /\ (/\ transport.pc = "done"
        /\ transport.history[Len(transport.history)] \in { 500, 502, 504 }) =>
            Attempts = 1 + transport.retries_number
    /\ \A i \in 1..(Attempts - 1) : transport.history[i] \in { 500, 502, 504 }

\* C30: a client constructed with use_retries=False sends every request
\* once.
C30_NoRetryWhenDisabled ==
    ~transport.use_retries => Attempts <= 1

\* C23: every request handed to session.request, by any method of any
\* client and to a next URL of the server too, carries the headers
\* Authorization: "Token <token>" and Content-Type: application/json.
C23_HeadersOnEveryRequest ==
    \A i \in 1..Len(reqs) :
        /\ reqs[i].headers.Authorization = "Token token"
        /\ reqs[i].headers.ContentType = "application/json"

\* C23 witness: a walker sent a request to a next URL of the server, after
\* the request that carried the params, and it has both headers.
C23_Witness ==
    \E i \in 2..Len(reqs) :
        /\ reqs[i].url \in NextUrls
        /\ ~reqs[i].hasParams
        /\ reqs[i].headers.Authorization = "Token token"
        /\ reqs[i].headers.ContentType = "application/json"

\* C24: whenever _cast_field_types fails on a cell of an integer, a
\* floating point or a timestamp field, the exception that leaves it is
\* CastException.
C24_CastFailureIsCastException ==
    cast.done => cast.outcome \in { "returned", "CastException" }

\* The parameter the batches are made of.
IterKey == IF iter_name = "CIK" THEN "cik" ELSE "cusip"

\* C25: the first request of the walker of every batch goes to the URL of
\* the endpoint with the params of the call, in which only the cik (or
\* cusip) entry is the batch: start_datetime, end_datetime, date_mode,
\* form_type, item and the parameter not iterated are those of the first
\* request of the first batch, and they are the arguments of the call.
C25_BatchKeepsFilters ==
    call.endpoint \in GenEndpoints =>
        \A i \in DOMAIN reqs :
            (i = 1 \/ reqs[i].batch # reqs[IF i = 1 THEN 1 ELSE i - 1].batch) =>
                /\ reqs[i].url = call.endpoint
                /\ reqs[i].hasParams
                /\ \A key \in { "start_datetime", "end_datetime", "date_mode",
                                "form_type", "item" } :
                        /\ reqs[i].params[key] = reqs[1].params[key]
                        /\ reqs[i].params[key] = call.args[key]
                /\ \A key \in { "cik", "cusip" } \ { IterKey } :
                        reqs[i].params[key] = reqs[1].params[key]
                /\ iter_name # "" =>
                        reqs[i].params[IterKey] = PyList(chunks[reqs[i].batch])

\* C25 witness: the walker of the first batch followed a next link, and the
\* second batch started at the endpoint with the dates, the date_mode and
\* form_type or item of the call.
C25_Witness ==
    /\ call.endpoint \in GenEndpoints
    /\ Len(reqs) = 3
    /\ reqs[2].batch = 1
    /\ reqs[2].url \in NextUrls
    /\ reqs[3].batch = 2
    /\ reqs[3].url = call.endpoint
    /\ reqs[3].params.start_datetime.kind # "none"
    /\ reqs[3].params.date_mode = PyScalar("knowledge_date")
    /\ reqs[3].params.form_type.kind # "none" \/ reqs[3].params.item.kind # "none"
    /\ reqs[3].params.cik # reqs[1].params.cik

\* The page size of the walker that runs.
LegacyB == PAYLOAD_BLOCK_SIZE[legacy.walker]

\* C26: in the offset walkers of the legacy client the first request of
\* every batch asks for offset 0, whatever the batch before did; a further
\* request of the same batch asks for the offset before plus the page size,
\* and is sent only if that offset is below the count of the response
\* before; the walker leaves a batch only at an offset that is not below
\* that count; the batches are taken in order and none without a request.
C26_OffsetWalk ==
    legacy.walker \in LegacyWalkers =>
        /\ \A i \in DOMAIN legacy.reqs :
            LET r == legacy.reqs[i]
                before == legacy.reqs[IF i = 1 THEN 1 ELSE i - 1]
            IN  IF i = 1
                THEN r.batch = 1 /\ r.offset = 0
                ELSE IF r.batch = before.batch
                THEN /\ r.offset = before.offset + LegacyB
                     /\ r.offset < legacy.resps[i - 1].count
                ELSE /\ r.batch = before.batch + 1
                     /\ r.offset = 0
                     /\ before.offset + LegacyB >= legacy.resps[i - 1].count
        /\ legacy.outcome = "returned" =>
            /\ Len(legacy.resps) = Len(legacy.reqs)
            /\ legacy.reqs # << >> =>
                /\ legacy.reqs[Len(legacy.reqs)].batch =
                        LegacyBatches(legacy.walker, legacy.cik)
                /\ legacy.reqs[Len(legacy.reqs)].offset + LegacyB >=
                        legacy.resps[Len(legacy.resps)].count
            /\ legacy.reqs = << >> => LegacyBatches(legacy.walker, legacy.cik) = 0

\* C26 witness: a walker asked for the offsets 0, B and 2B of its first
\* batch and then for offset 0 of its second batch.
C26_Witness ==
    /\ legacy.walker \in LegacyWalkers
    /\ Len(legacy.reqs) = 4
    /\ legacy.reqs[2].offset = LegacyB
    /\ legacy.reqs[3].offset = 2 * LegacyB
    /\ legacy.reqs[3].batch = 1
    /\ legacy.reqs[4].batch = 2
    /\ legacy.reqs[4].offset = 0
    /\ legacy.reqs[4].cik # legacy.reqs[3].cik

\* C27: search_pages is lazy. Creating the generator sends nothing; the
\* generator sends a scroll request only when its caller asks for the next
\* page, one request per page asked for; it hands the page over without
\* asking for another one, so the requests it has sent are the pages it has
\* yielded plus the one being fetched, and a generator nobody resumes sends
\* nothing.
C27_LazyPages ==
    [][/\ gen'.sent # gen.sent =>
            \/ gen'.state = "created" /\ gen'.sent = << >> /\ reqs' = reqs
            \/ /\ pc = "idle"
               /\ pc' = "wait"
               /\ call'.endpoint = "search_pages"
               /\ gen'.sent = Append(gen.sent, scroll_id)
               /\ Len(reqs') = 1
       /\ (pc = "wait" /\ call.endpoint = "search_pages") =>
            /\ pc' = "done"
            /\ reqs' = reqs
            /\ gen'.sent = gen.sent
       /\ (call'.endpoint = "search_pages" /\ pc' = "wait") =>
            /\ pc = "idle"
            /\ Len(gen'.sent) = Len(gen.sent) + 1
       /\ gen'.state \in { "running", "suspended" } =>
            Len(gen'.sent) = gen'.current_page_number]_vars

\* C27 witness: the generator yielded two pages for two requests and stays
\* suspended while its caller runs another call of the client.
C27_Witness ==
    /\ gen.state = "suspended"
    /\ Len(gen.sent) = 2
    /\ gen.current_page_number = 2
    /\ pc = "wait"
    /\ call.endpoint = "get_payload"

\* The call passed an empty list for the parameter it iterates over.
EmptyListCall ==
    \/ call.cik = PyList(<< >>) /\ call.cusip = PyNone
    \/ call.cik = PyNone /\ call.cusip = PyList(<< >>)

\* C28: an empty cik (or cusip) list given to get_form_headers,
\* get_form4_payload, get_form8_payload or get_form13_payload makes no
\* batch: the call sends no request and returns an empty result. With
\* neither cik nor cusip there is one batch, whose requests carry neither
\* and follow the next links.
C28_EmptyListNoRequest ==
    call.endpoint \in GenEndpoints =>
        /\ (EmptyListCall /\ call.args = NoArgs) =>
            /\ reqs = << >>
            /\ pc = "done"
            /\ outcome = "returned"
            /\ result = << >>
        /\ (call.cik = PyNone /\ call.cusip = PyNone /\ call.args = NoArgs) =>
            /\ Len(chunks) = 1
            /\ Len(reqs) >= 1
            /\ \A i \in DOMAIN reqs :
                /\ reqs[i].batch = 1
                /\ reqs[i].params.cik = PyNone
                /\ reqs[i].params.cusip = PyNone
                /\ i > 1 => reqs[i].url = resps[i - 1].next

\* C28 witness: get_form13_payload returned from a call with an empty
\* cusip list, having sent nothing.
C28_Witness ==
    /\ call.endpoint = "form13"
    /\ call.cusip = PyList(<< >>)
    /\ call.cik = PyNone
    /\ pc = "done"
    /\ outcome = "returned"
    /\ reqs = << >>

\* C29: a search that raises, on a 401 or on a response that has no
\* scroll_id, total_count and rows to parse, leaves the stored scroll id
\* and the stored total count as they were before the call.
C29_FailedSearchKeepsCursor ==
    [][(/\ call.endpoint = "search"
        /\ pc = "wait"
        /\ pc' = "done"
        /\ outcome' # "returned") =>
            /\ scroll_id' = scroll_id
            /\ last_total_count' = last_total_count]_vars

=============================================================================
